---------------------------- MODULE Spec2Model ----------------------------
(***************************************************************************)
(* A model of the filler bot library (solution/src/game, solution/src/     *)
(* types.rs): one turn of the decision engine.  A turn starts with a       *)
(* parsed board and a parsed raw piece, normalises the piece (trim_piece)  *)
(* and then either selects and prints a move (make_move) or answers one    *)
(* direct call of a public query (is_legal_move, find_legal_moves together *)
(* with emergency_move_search).                                            *)
(*                                                                         *)
(* Grids are functions indexed from 0, as Vec<Vec<_>> is: board[y][x] and  *)
(* piece[r][c].  Vec<(i32,i32)> and Vec<PieceOffset> are sequences in push *)
(* order.  A printed line "{} {}" is the pair <<ox, oy>> of the two        *)
(* integers it shows.                                                      *)
(***************************************************************************)
EXTENDS Integers, Sequences, FiniteSets, TLC

\* ----------------------------------------------------------------- bounds
\* Boards of 1..MaxBoardWidth by 1..MaxBoardHeight cells, at most MaxStones of
\* them owned; raw pieces of 0..MaxPieceWidth by 0..MaxPieceHeight cells.
MaxBoardWidth == 2
MaxBoardHeight == 2
MaxStones == 2
MaxPieceWidth == 2
MaxPieceHeight == 1
\* Raw pieces of 0..TrimMaxWidth by 0..TrimMaxHeight cells in SpecTrim.
TrimMaxWidth == 3
TrimMaxHeight == 3
\* Boards of 1..FitBoardWidth by 1..FitBoardHeight cells and raw pieces of
\* 0..FitPieceSide by 0..FitPieceSide cells, at most FitMaxFilled of them
\* Filled, in SpecFit.
FitBoardWidth == 2
FitBoardHeight == 1
FitPieceSide == 2
FitMaxFilled == 2
\* Boards of 1..MapMaxWidth by 1..MapMaxHeight cells, at most MapMaxStones of
\* them owned, in SpecMap.
MapMaxWidth == 3
MapMaxHeight == 2
MapMaxStones == 3
\* One-row boards of 1..PhaseMaxCells cells in SpecPhase.
PhaseMaxCells == 20
\* One-row boards of 1..CombineMaxCells cells and feature totals of
\* 0..CombineMaxFeature in SpecCombine.
CombineMaxCells == 4
CombineMaxFeature == 2
\* Candidates at 0..OrderMaxCoord with scores of 0..OrderMaxScore in SpecOrder.
OrderMaxCoord == 1
OrderMaxScore == 1
\* Boards of 1..ConnMaxWidth by 1..ConnMaxHeight cells in SpecConn.
ConnMaxWidth == 11
ConnMaxHeight == 2
\* One-row boards of 1..EdgeBoardWidth cells and one-row raw pieces of
\* 0..EdgePieceWidth cells in SpecEdge.
EdgeBoardWidth == 2
EdgePieceWidth == 3
\* Boards of 1..BfsMaxWidth by 1..BfsMaxHeight cells, at most BfsMaxStones of
\* them owned, in SpecBfs.
BfsMaxWidth == 3
BfsMaxHeight == 2
BfsMaxStones == 2

\* -------------------------------------------------------------- constants
\* i32::MIN / 4, the score of a placement that claims no empty cell.
MinScore == -536870912

VARIABLES
    player,         \* Player::One | Player::Two
    board_width,
    board_height,
    board,          \* board[y][x] \in Cell
    piece_width,
    piece_height,
    piece,          \* piece[r][c] \in PieceCell
    piece_offsets,  \* the offsets returned by trim_piece
    trim_off_x,     \* the correction returned by trim_piece
    trim_off_y,
    pc,             \* "parsed" | "trimmed" | "retrimmed" | "searching" | "moved"
                    \* | "called" | "panicked" | "reading" | "exited"
    legal_moves,    \* make_move's local legal_moves when it printed
    best,           \* make_move's local best (<<>> on the no-move branch)
    stdout,         \* the lines printed so far
    ret,            \* the value returned by a direct call of a query
    stdin,          \* the lines of standard input not read yet
    frame           \* the locals of a call that is in progress

vars == <<player, board_width, board_height, board, piece_width, piece_height,
          piece, piece_offsets, trim_off_x, trim_off_y, pc, legal_moves, best,
          stdout, ret, stdin, frame>>

Player == {"One", "Two"}
Cell == {"Empty", "Player1", "Player2"}
PieceCell == {"Empty", "Filled"}

Min2(a, b) == IF a < b THEN a ELSE b
Max2(a, b) == IF a > b THEN a ELSE b

\* init.min(e) / init.max(e) folded over the elements e of S.
SetMin(S, init) == CHOOSE m \in S \cup {init} : \A e \in S \cup {init} : m <= e
SetMax(S, init) == CHOOSE m \in S \cup {init} : \A e \in S \cup {init} : m >= e

\* The board cell that belongs to the mover / to the opponent.
MyCell == IF player = "One" THEN "Player1" ELSE "Player2"
OpCell == IF player = "One" THEN "Player2" ELSE "Player1"

InBoard(bx, by) ==
    ~(bx < 0 \/ by < 0 \/ bx >= board_width \/ by >= board_height)

\* ------------------------------------------------------------- trim_piece
\* The (row, column) positions of the Filled cells of the stored piece.
FilledCells ==
    {rc \in (0..(piece_height - 1)) \X (0..(piece_width - 1)) :
        piece[rc[1]][rc[2]] = "Filled"}

\* The bounds the scan leaves in min_row, max_row, min_col and max_col.
TrimBounds ==
    LET filled == FilledCells
        rows == {rc[1] : rc \in filled}
        cols == {rc[2] : rc \in filled}
    IN [min_row |-> SetMin(rows, piece_height), max_row |-> SetMax(rows, 0),
        min_col |-> SetMin(cols, piece_width), max_col |-> SetMax(cols, 0)]

\* self.piece[r0 + r][c0 + c] is read for every cell of the new h by w box:
\* an index outside the stored grid panics.
TrimIndexPanics(r0, c0, h, w) ==
    \E r \in 0..(h - 1), c \in 0..(w - 1) :
        \/ (r0 + r) \notin DOMAIN piece
        \/ (c0 + c) \notin DOMAIN piece[r0 + r]

\* Variant: the stored grid is not replaced by the trimmed one.
new_piece_uncropped(r0, c0, h, w) == piece

new_piece(r0, c0, h, w) ==
    [r \in 0..(h - 1) |-> [c \in 0..(w - 1) |-> piece[r0 + r][c0 + c]]]

\* Variant: offsets left in the coordinates of the raw grid.
TrimOffsets_unnormalised(r0, c0, h, w) ==
    LET all == [k \in 1..(h * w) |->
                   [dx |-> c0 + ((k - 1) % w), dy |-> r0 + ((k - 1) \div w)]]
        IsFilled(o) == piece[o.dy][o.dx] = "Filled"
    IN SelectSeq(all, IsFilled)

\* Variant: dx taken from the row and dy from the column.
TrimOffsets_transposed(r0, c0, h, w) ==
    LET all == [k \in 1..(h * w) |-> [dx |-> (k - 1) \div w, dy |-> (k - 1) % w]]
        IsFilled(o) == piece[r0 + o.dx][c0 + o.dy] = "Filled"
    IN SelectSeq(all, IsFilled)

\* The offsets pushed by the copy loop, rows outermost.
TrimOffsets(r0, c0, h, w) ==
    LET all == [k \in 1..(h * w) |-> [dx |-> (k - 1) % w, dy |-> (k - 1) \div w]]
        IsFilled(o) == piece[r0 + o.dy][c0 + o.dx] = "Filled"
    IN SelectSeq(all, IsFilled)

\* ---------------------------------------------------------- is_legal_move
\* The loop over piece_offsets from index i on, with own_overlaps so far.
RECURSIVE is_legal_loop(_, _, _, _, _)
is_legal_loop(x, y, offs, i, own_overlaps) ==
    IF i > Len(offs) THEN own_overlaps = 1
    ELSE LET bx == x + offs[i].dx
             by == y + offs[i].dy
         IN IF bx < 0 \/ by < 0 \/ bx >= board_width \/ by >= board_height
            THEN FALSE
            ELSE IF board[by][bx] = OpCell THEN FALSE
            ELSE IF board[by][bx] = MyCell
                 THEN is_legal_loop(x, y, offs, i + 1, own_overlaps + 1)
                 ELSE is_legal_loop(x, y, offs, i + 1, own_overlaps)

\* Variant: any positive number of own overlaps is accepted.
RECURSIVE is_legal_loop_some(_, _, _, _, _)
is_legal_loop_some(x, y, offs, i, own_overlaps) ==
    IF i > Len(offs) THEN own_overlaps >= 1
    ELSE LET bx == x + offs[i].dx
             by == y + offs[i].dy
         IN IF bx < 0 \/ by < 0 \/ bx >= board_width \/ by >= board_height
            THEN FALSE
            ELSE IF board[by][bx] = OpCell THEN FALSE
            ELSE IF board[by][bx] = MyCell
                 THEN is_legal_loop_some(x, y, offs, i + 1, own_overlaps + 1)
                 ELSE is_legal_loop_some(x, y, offs, i + 1, own_overlaps)

is_legal_move_some(x, y, offs) == is_legal_loop_some(x, y, offs, 1, 0)

\* Variant: a placement that overlaps no cell of the mover is accepted too.
RECURSIVE is_legal_loop_at_most(_, _, _, _, _)
is_legal_loop_at_most(x, y, offs, i, own_overlaps) ==
    IF i > Len(offs) THEN own_overlaps <= 1
    ELSE LET bx == x + offs[i].dx
             by == y + offs[i].dy
         IN IF bx < 0 \/ by < 0 \/ bx >= board_width \/ by >= board_height
            THEN FALSE
            ELSE IF board[by][bx] = OpCell THEN FALSE
            ELSE IF board[by][bx] = MyCell
                 THEN is_legal_loop_at_most(x, y, offs, i + 1, own_overlaps + 1)
                 ELSE is_legal_loop_at_most(x, y, offs, i + 1, own_overlaps)

is_legal_move_at_most(x, y, offs) == is_legal_loop_at_most(x, y, offs, 1, 0)

\* Variant: an overlap with the opponent does not reject the placement.
RECURSIVE is_legal_loop_over(_, _, _, _, _)
is_legal_loop_over(x, y, offs, i, own_overlaps) ==
    IF i > Len(offs) THEN own_overlaps = 1
    ELSE LET bx == x + offs[i].dx
             by == y + offs[i].dy
         IN IF bx < 0 \/ by < 0 \/ bx >= board_width \/ by >= board_height
            THEN FALSE
            ELSE IF board[by][bx] = MyCell
                 THEN is_legal_loop_over(x, y, offs, i + 1, own_overlaps + 1)
                 ELSE is_legal_loop_over(x, y, offs, i + 1, own_overlaps)

is_legal_move_over(x, y, offs) == is_legal_loop_over(x, y, offs, 1, 0)

\* Variant: an offset that lands off the board is skipped.
RECURSIVE is_legal_loop_hang(_, _, _, _, _)
is_legal_loop_hang(x, y, offs, i, own_overlaps) ==
    IF i > Len(offs) THEN own_overlaps = 1
    ELSE LET bx == x + offs[i].dx
             by == y + offs[i].dy
         IN IF bx < 0 \/ by < 0 \/ bx >= board_width \/ by >= board_height
            THEN is_legal_loop_hang(x, y, offs, i + 1, own_overlaps)
            ELSE IF board[by][bx] = OpCell THEN FALSE
            ELSE IF board[by][bx] = MyCell
                 THEN is_legal_loop_hang(x, y, offs, i + 1, own_overlaps + 1)
                 ELSE is_legal_loop_hang(x, y, offs, i + 1, own_overlaps)

is_legal_move_hang(x, y, offs) == is_legal_loop_hang(x, y, offs, 1, 0)

is_legal_move(x, y, offs) == is_legal_loop(x, y, offs, 1, 0)

\* ------------------------------------- find_legal_moves / emergency search
\* for y in start_y..=end_y { for x in start_x..=end_x { if legal push } }
ScanWindow(start_x, end_x, start_y, end_y, offs) ==
    LET nx == end_x - start_x + 1
        ny == end_y - start_y + 1
    IN IF nx <= 0 \/ ny <= 0 THEN << >>
       ELSE LET all == [k \in 1..(nx * ny) |->
                           <<start_x + ((k - 1) % nx), start_y + ((k - 1) \div nx)>>]
                Legal(a) == is_legal_move(a[1], a[2], offs)
            IN SelectSeq(all, Legal)

\* Variant: the scan starts at (0, 0) whatever the correction.
find_legal_moves_from_zero(offs, tx, ty) ==
    IF piece_width > board_width \/ piece_height > board_height THEN << >>
    ELSE ScanWindow(0, board_width - piece_width + tx,
                    0, board_height - piece_height + ty, offs)

find_legal_moves(offs, tx, ty) ==
    IF piece_width > board_width \/ piece_height > board_height THEN << >>
    ELSE ScanWindow(tx, board_width - piece_width + tx,
                    ty, board_height - piece_height + ty, offs)

\* Variant: the ranges exclude end_x and end_y.
emergency_move_search_exclusive(offs, tx, ty) ==
    ScanWindow(tx, board_width - piece_width + tx - 1,
               ty, board_height - piece_height + ty - 1, offs)

emergency_move_search(offs, tx, ty) ==
    ScanWindow(tx, board_width - piece_width + tx,
               ty, board_height - piece_height + ty, offs)

\* ------------------------------------------------- calculate_distance_map
directions == << <<0, 1>>, <<1, 0>>, <<0, -1>>, <<-1, 0>> >>

\* The cells of the board in row-major order (y outermost), as <<x, y>>.
RowMajor ==
    [k \in 1..(board_width * board_height) |->
        <<(k - 1) % board_width, (k - 1) \div board_width>>]

IsOpponentCell(c) ==
    \/ player = "One" /\ board[c[2]][c[1]] = "Player2"
    \/ player = "Two" /\ board[c[2]][c[1]] = "Player1"

\* Variant: every cell reached is given the distance 1.
BfsVisit_flat(st, x, y, dir) ==
    LET nx == x + dir[1]
        ny == y + dir[2]
    IN IF nx >= 0 /\ nx < board_width /\ ny >= 0 /\ ny < board_height
          /\ st.dist[ny][nx] = -1
       THEN [dist |-> [st.dist EXCEPT ![ny][nx] = 1],
             queue |-> Append(st.queue, <<nx, ny>>)]
       ELSE st

\* Variant: a neighbour that already holds a distance is written again.
BfsVisit_rewrite(st, x, y, dir) ==
    LET nx == x + dir[1]
        ny == y + dir[2]
    IN IF nx >= 0 /\ nx < board_width /\ ny >= 0 /\ ny < board_height
       THEN IF st.dist[ny][nx] = -1
            THEN [dist |-> [st.dist EXCEPT ![ny][nx] = st.dist[y][x] + 1],
                  queue |-> Append(st.queue, <<nx, ny>>)]
            ELSE [dist |-> [st.dist EXCEPT ![ny][nx] = st.dist[y][x] + 1],
                  queue |-> st.queue]
       ELSE st

\* Variant: a neighbour whose distance is one more than the dequeued cell's
\* is taken for unvisited and enqueued again.
BfsVisit_requeue(st, x, y, dir) ==
    LET nx == x + dir[1]
        ny == y + dir[2]
    IN IF nx >= 0 /\ nx < board_width /\ ny >= 0 /\ ny < board_height
          /\ (st.dist[ny][nx] = -1 \/ st.dist[ny][nx] = st.dist[y][x] + 1)
       THEN [dist |-> [st.dist EXCEPT ![ny][nx] = st.dist[y][x] + 1],
             queue |-> Append(st.queue, <<nx, ny>>)]
       ELSE st

\* One neighbour of the dequeued cell: written and enqueued only while it
\* still holds the sentinel -1.
BfsVisit(st, x, y, dir) ==
    LET nx == x + dir[1]
        ny == y + dir[2]
    IN IF nx >= 0 /\ nx < board_width /\ ny >= 0 /\ ny < board_height
          /\ st.dist[ny][nx] = -1
       THEN [dist |-> [st.dist EXCEPT ![ny][nx] = st.dist[y][x] + 1],
             queue |-> Append(st.queue, <<nx, ny>>)]
       ELSE st

\* One pass of the while loop: the front of the queue is popped and its four
\* neighbours are visited in the order of directions.
BfsStep(st) ==
    LET x == Head(st.queue)[1]
        y == Head(st.queue)[2]
        s0 == [dist |-> st.dist, queue |-> Tail(st.queue)]
        s1 == BfsVisit(s0, x, y, directions[1])
        s2 == BfsVisit(s1, x, y, directions[2])
        s3 == BfsVisit(s2, x, y, directions[3])
    IN BfsVisit(s3, x, y, directions[4])

RECURSIVE BfsLoop(_)
BfsLoop(st) ==
    IF st.queue = << >> THEN st.dist ELSE BfsLoop(BfsStep(st))

\* distance_map and queue when the loop starts: -1 everywhere but 0 at the
\* opponent cells, which are queued in row-major order.
BfsSeed ==
    [dist |-> [y \in 0..(board_height - 1) |->
                  [x \in 0..(board_width - 1) |->
                      IF IsOpponentCell(<<x, y>>) THEN 0 ELSE -1]],
     queue |-> SelectSeq(RowMajor, IsOpponentCell)]

calculate_distance_map == BfsLoop(BfsSeed)

\* ---------------------------------------------------------------- scoring
Neighbours(x, y) ==
    {n \in {<<x + directions[i][1], y + directions[i][2]>> : i \in 1..4} :
        n[1] >= 0 /\ n[1] < board_width /\ n[2] >= 0 /\ n[2] < board_height}

count_empty_neighbors(x, y) ==
    Cardinality({n \in Neighbours(x, y) : board[n[2]][n[1]] = "Empty"})

CountCells(c) ==
    Cardinality({xy \in (0..(board_width - 1)) \X (0..(board_height - 1)) :
                    board[xy[2]][xy[1]] = c})

count_my_territory == CountCells(MyCell)
count_opponent_territory == CountCells(OpCell)

get_my_territory_positions ==
    LET Mine(c) == board[c[2]][c[1]] = MyCell IN SelectSeq(RowMajor, Mine)

Abs(n) == IF n < 0 THEN -n ELSE n

I32Max == 2147483647

\* ---- f32 arithmetic: a positive f32 is [m |-> mantissa, k |-> scale] and
\* stands for m * 2^(-23 - k), with 2^23 <= m < 2^24.
\* The literals 0.35 and 0.70 as f32 (0x3EB33333 and 0x3F333333).
F32_0_35 == [m |-> 11744051, k |-> 2]
F32_0_70 == [m |-> 11744051, k |-> 1]

\* a doubled k more times until it is at least b.
RECURSIVE F32Scale(_, _, _)
F32Scale(a, b, k) == IF a >= b THEN <<a, k>> ELSE F32Scale(2 * a, b, k + 1)

\* Round <<quotient, twice the remainder>> to nearest, ties to even, and
\* renormalise a mantissa of 2^24.
F32Round(q, b, k) ==
    IF q[2] > b \/ (q[2] = b /\ q[1] % 2 = 1)
    THEN IF q[1] + 1 = 16777216 THEN [m |-> 8388608, k |-> k - 1]
         ELSE [m |-> q[1] + 1, k |-> k]
    ELSE [m |-> q[1], k |-> k]

\* The 24 quotient bits of s[1] / b, where b <= s[1] < 2 * b, rounded.
F32Quotient(s, b) ==
    F32Round(<<(s[1] * 8388608) \div b, 2 * ((s[1] * 8388608) % b)>>, b, s[2])

\* a as f32 / b as f32 for integers 0 < a <= b < 128 (the casts are exact
\* and the products above stay inside 32 bits).
F32Div(a, b) == F32Quotient(F32Scale(a, b, 0), b)

F32Less(p, q) == p.k > q.k \/ (p.k = q.k /\ p.m < q.m)

\* Variant: the early and mid bands include their upper boundary.
PhaseOf_inclusive(p) ==
    IF F32Less(p, F32_0_35) \/ p = F32_0_35 THEN <<150, 40, 15, -5>>
    ELSE IF F32Less(p, F32_0_70) \/ p = F32_0_70 THEN <<120, 20, 35, -15>>
    ELSE <<200, 10, 50, -25>>

\* (w_new, w_lib, w_adj, w_heat) for a positive phase p.
PhaseOf(p) ==
    IF F32Less(p, F32_0_35) THEN <<150, 40, 15, -5>>
    ELSE IF F32Less(p, F32_0_70) THEN <<120, 20, 35, -15>>
    ELSE <<200, 10, 50, -25>>

\* (w_new, w_lib, w_adj, w_heat) by phase p = occ as f32 / total as f32.
\* A board of no cell gives NaN, which is below neither literal; no owned
\* cell gives p = 0.0.
PhaseWeights(occ, total) ==
    IF total = 0 THEN <<200, 10, 50, -25>>
    ELSE IF occ = 0 THEN <<150, 40, 15, -5>>
    ELSE PhaseOf(F32Div(occ, total))

\* Variant: the distance is added to the heat whatever its sign.
CellFeatures_any_heat(bx, by, dist) ==
    IF board[by][bx] = "Empty"
    THEN <<1,
           count_empty_neighbors(bx, by),
           dist[by][bx],
           Cardinality({n \in Neighbours(bx, by) : board[n[2]][n[1]] = OpCell})>>
    ELSE <<0, 0, 0, 0>>

\* The features of one claimed (empty) cell: <<new, liberties, heat, adj_op>>.
CellFeatures(bx, by, dist) ==
    IF board[by][bx] = "Empty"
    THEN <<1,
           count_empty_neighbors(bx, by),
           IF dist[by][bx] > 0 THEN dist[by][bx] ELSE 0,
           Cardinality({n \in Neighbours(bx, by) : board[n[2]][n[1]] = OpCell})>>
    ELSE <<0, 0, 0, 0>>

AddFeatures(f, g) == <<f[1] + g[1], f[2] + g[2], f[3] + g[3], f[4] + g[4]>>

\* The totals <<new_cells, liberties, heat_sum, adj_op>> over offs[i..].
RECURSIVE SumFeatures(_, _, _, _, _)
SumFeatures(x, y, dist, offs, i) ==
    IF i > Len(offs) THEN <<0, 0, 0, 0>>
    ELSE AddFeatures(CellFeatures(x + offs[i].dx, y + offs[i].dy, dist),
                     SumFeatures(x, y, dist, offs, i + 1))

\* best_conn after the loop over get_my_territory_positions from index i on.
RECURSIVE BestConn(_, _, _, _, _)
BestConn(x, y, pos, i, best_conn) ==
    IF i > Len(pos) THEN best_conn
    ELSE BestConn(x, y, pos, i + 1,
                  Min2(Abs(x - pos[i][1]) + Abs(y - pos[i][2]), best_conn))

\* Variant: the distance is not capped at 10.
ConnBonus_uncapped(best_conn) == (10 - best_conn) * 10

\* The connectivity bias added when the mover owns a cell.
ConnBonus(best_conn) == (10 - Min2(best_conn, 10)) * 10

\* Variant: the territory term is left out of the sum.
ScoreTotal_no_territory(my_t, op_t, f, w, best_conn) ==
    IF f[1] = 0 THEN MinScore
    ELSE f[2] * w[2] + f[4] * w[3] + f[3] * w[4]
         + (IF my_t < op_t THEN f[4] * 20 ELSE 0)
         + (IF my_t > 0 THEN ConnBonus(best_conn) ELSE 0)

\* Variant: no early return for a placement that claims no cell.
ScoreTotal_unguarded(my_t, op_t, f, w, best_conn) ==
    f[1] * w[1] + f[2] * w[2] + f[4] * w[3] + f[3] * w[4]
    + (IF my_t < op_t THEN f[4] * 20 ELSE 0)
    + (IF my_t > 0 THEN ConnBonus(best_conn) ELSE 0)

\* The score from the features f = <<new_cells, liberties, heat_sum, adj_op>>,
\* the weights w = <<w_new, w_lib, w_adj, w_heat>> and best_conn.
ScoreTotal(my_t, op_t, f, w, best_conn) ==
    IF f[1] = 0 THEN MinScore
    ELSE f[1] * w[1] + f[2] * w[2] + f[4] * w[3] + f[3] * w[4]
         + (IF my_t < op_t THEN f[4] * 20 ELSE 0)
         + (IF my_t > 0 THEN ConnBonus(best_conn) ELSE 0)

ScoreWith(x, y, dist, offs, my_t, op_t) ==
    ScoreTotal(my_t, op_t,
               SumFeatures(x, y, dist, offs, 1),
               PhaseWeights(my_t + op_t, board_width * board_height),
               BestConn(x, y, get_my_territory_positions, 1, I32Max))

score_move(x, y, dist, offs) ==
    ScoreWith(x, y, dist, offs, count_my_territory, count_opponent_territory)

\* -------------------------------------------------------------- make_move
\* for &(x, y) in &legal_moves { if s > best_score { best_score = s; best = (x, y) } }
RECURSIVE SelectBest(_, _, _, _, _, _)
\* Variant: an equal score replaces the best so far.
SelectStep_last(moves, dist, offs, i, best_move, best_score, s) ==
    IF s >= best_score
    THEN SelectBest(moves, dist, offs, i + 1, moves[i], s)
    ELSE SelectBest(moves, dist, offs, i + 1, best_move, best_score)

SelectStep(moves, dist, offs, i, best_move, best_score, s) ==
    IF s > best_score
    THEN SelectBest(moves, dist, offs, i + 1, moves[i], s)
    ELSE SelectBest(moves, dist, offs, i + 1, best_move, best_score)

SelectBest(moves, dist, offs, i, best_move, best_score) ==
    IF i > Len(moves) THEN best_move
    ELSE SelectStep(moves, dist, offs, i, best_move, best_score,
                    score_move(moves[i][1], moves[i][2], dist, offs))

\* legal_moves after the fall-back to emergency_move_search.
OrElse(found, fallback) == IF found = << >> THEN fallback ELSE found

MakeMoveLegal(offs, tx, ty) ==
    OrElse(find_legal_moves(offs, tx, ty), emergency_move_search(offs, tx, ty))

MakeMoveBest(moves, distance_map, offs) ==
    SelectBest(moves, distance_map, offs, 1, moves[1],
               score_move(moves[1][1], moves[1][2], distance_map, offs))

\* Variant: the normalised anchor is printed without the correction.
MoveLine_uncorrected(best_move, tx, ty) ==
    <<Max2(best_move[1], 0), Max2(best_move[2], 0)>>

\* The line printed for the chosen anchor: ox = out_x.max(0), oy = out_y.max(0).
MoveLine(best_move, tx, ty) ==
    <<Max2(best_move[1] - tx, 0), Max2(best_move[2] - ty, 0)>>

\* Variant: the no-move branch prints a pair that is not on any board.
PassLine_off_board == <<-1, -1>>

PassLine == <<0, 0>>

\* ------------------------------------------------------------------ inputs
CellsOf(w, h) == (0..(w - 1)) \X (0..(h - 1))

\* The subsets of S with at most n elements.
UpTo(S, n) == {T \in SUBSET S : Cardinality(T) <= n}

BoardOf(w, h, colour) ==
    [y \in 0..(h - 1) |->
        [x \in 0..(w - 1) |->
            IF <<x, y>> \in DOMAIN colour THEN colour[<<x, y>>] ELSE "Empty"]]

PieceOf(w, h, filled) ==
    [r \in 0..(h - 1) |->
        [c \in 0..(w - 1) |-> IF <<c, r>> \in filled THEN "Filled" ELSE "Empty"]]

\* ---------------------------------------------------------------- actions
\* The state after parse_player, parse_board_dimensions, parse_board_row,
\* parse_piece_dimensions and parse_piece_row have read a well-formed turn.
Init ==
    /\ player \in Player
    /\ board_width \in 1..MaxBoardWidth
    /\ board_height \in 1..MaxBoardHeight
    /\ \E stones \in UpTo(CellsOf(board_width, board_height), MaxStones) :
         \E colour \in [stones -> {"Player1", "Player2"}] :
            board = BoardOf(board_width, board_height, colour)
    /\ piece_width \in 0..MaxPieceWidth
    /\ piece_height \in 0..MaxPieceHeight
    /\ \E filled \in SUBSET CellsOf(piece_width, piece_height) :
         piece = PieceOf(piece_width, piece_height, filled)
    /\ piece_offsets = << >>
    /\ trim_off_x = 0
    /\ trim_off_y = 0
    /\ pc = "parsed"
    /\ legal_moves = << >>
    /\ best = << >>
    /\ stdout = << >>
    /\ ret = [fn |-> "none"]
    /\ stdin = << >>
    /\ frame = [fn |-> "none"]

\* A call of trim_piece with the turn at `at`, which leaves it at `done`.
TrimPieceAt(at, done) ==
    /\ pc = at
    /\ \E bounds \in {TrimBounds} :
       LET r0 == bounds.min_row
           r1 == bounds.max_row
           c0 == bounds.min_col
           c1 == bounds.max_col
           new_h == r1 - r0 + 1
           new_w == c1 - c0 + 1
       IN IF r0 > r1 \/ c0 > c1
          THEN /\ piece_offsets' = << >>
               /\ trim_off_x' = 0
               /\ trim_off_y' = 0
               /\ pc' = done
               /\ UNCHANGED <<piece, piece_width, piece_height>>
          ELSE IF TrimIndexPanics(r0, c0, new_h, new_w)
          THEN /\ pc' = "panicked"
               /\ UNCHANGED <<piece, piece_width, piece_height, piece_offsets,
                              trim_off_x, trim_off_y>>
          ELSE /\ piece' = new_piece(r0, c0, new_h, new_w)
               /\ piece_width' = new_w
               /\ piece_height' = new_h
               /\ piece_offsets' = TrimOffsets(r0, c0, new_h, new_w)
               /\ trim_off_x' = c0
               /\ trim_off_y' = r0
               /\ pc' = done
    /\ UNCHANGED <<player, board_width, board_height, board, legal_moves,
                   best, stdout, ret, stdin, frame>>

TrimPiece == TrimPieceAt("parsed", "trimmed")

\* A second call of trim_piece on the same GameState.
TrimPieceAgain == TrimPieceAt("trimmed", "retrimmed")

\* score_move indexes self.board[by][bx] and dist[by][bx] with bx = (x + off.dx)
\* as usize and by = (y + off.dy) as usize, unchecked: an anchor that puts an
\* offset off the board panics there.
ScoreIndexPanics(moves, offs) ==
    \E k \in 1..Len(moves) : \E i \in 1..Len(offs) :
        ~InBoard(moves[k][1] + offs[i].dx, moves[k][2] + offs[i].dy)

MakeMove ==
    /\ pc = "trimmed"
    /\ \E distance_map \in {calculate_distance_map} :
       \E moves \in {MakeMoveLegal(piece_offsets, trim_off_x, trim_off_y)} :
          /\ legal_moves' = moves
          /\ IF moves = << >>
             THEN /\ best' = << >>
                  /\ stdout' = Append(stdout, PassLine)
                  /\ pc' = "moved"
             ELSE IF ScoreIndexPanics(moves, piece_offsets)
             THEN /\ best' = << >>
                  /\ stdout' = stdout
                  /\ pc' = "panicked"
             ELSE \E b \in {MakeMoveBest(moves, distance_map, piece_offsets)} :
                     /\ best' = b
                     /\ stdout' = Append(stdout, MoveLine(b, trim_off_x, trim_off_y))
                     /\ pc' = "moved"
    /\ UNCHANGED <<player, board_width, board_height, board, piece_width,
                   piece_height, piece, piece_offsets, trim_off_x,
                   trim_off_y, ret, stdin, frame>>

\* The anchors on the board and one step off each edge.
ProbeAnchors == ((-1)..board_width) \X ((-1)..board_height)

\* Direct calls of is_legal_move, one for every anchor on or just off the board.
IsLegalMove ==
    /\ pc = "trimmed"
    /\ ret' = [fn |-> "is_legal_move",
               val |-> [a \in ProbeAnchors |-> is_legal_move(a[1], a[2], piece_offsets)]]
    /\ pc' = "called"
    /\ UNCHANGED <<player, board_width, board_height, board, piece_width,
                   piece_height, piece, piece_offsets, trim_off_x, trim_off_y,
                   legal_moves, best, stdout, stdin, frame>>

\* A direct call of both enumerators on the same state.
EnumerateMoves ==
    /\ pc = "trimmed"
    /\ ret' = [fn |-> "enumerate",
               bounded |-> find_legal_moves(piece_offsets, trim_off_x, trim_off_y),
               exhaustive |-> emergency_move_search(piece_offsets, trim_off_x, trim_off_y)]
    /\ pc' = "called"
    /\ UNCHANGED <<player, board_width, board_height, board, piece_width,
                   piece_height, piece, piece_offsets, trim_off_x, trim_off_y,
                   legal_moves, best, stdout, stdin, frame>>

Next == TrimPiece \/ MakeMove \/ IsLegalMove \/ EnumerateMoves

Spec == Init /\ [][Next]_vars

\* ------------------------------------------------- normalisation on its own
\* trim_piece alone, on larger raw pieces; the board plays no part in it.
InitTrim ==
    /\ player \in Player
    /\ board_width = 1
    /\ board_height = 1
    /\ board = BoardOf(1, 1, << >>)
    /\ piece_width \in 0..TrimMaxWidth
    /\ piece_height \in 0..TrimMaxHeight
    /\ \E filled \in SUBSET CellsOf(piece_width, piece_height) :
         piece = PieceOf(piece_width, piece_height, filled)
    /\ piece_offsets = << >>
    /\ trim_off_x = 0
    /\ trim_off_y = 0
    /\ pc = "parsed"
    /\ legal_moves = << >>
    /\ best = << >>
    /\ stdout = << >>
    /\ ret = [fn |-> "none"]
    /\ stdin = << >>
    /\ frame = [fn |-> "none"]

NextTrim == TrimPiece

SpecTrim == InitTrim /\ [][NextTrim]_vars

NextRetrim == TrimPiece \/ TrimPieceAgain

SpecRetrim == InitTrim /\ [][NextRetrim]_vars

\* --------------------------------------------------- score_move on its own
\* The anchors at which every offset indexes a cell of the board; score_move
\* indexes self.board[by][bx] unchecked.
OnBoardAnchors(offs) ==
    {a \in (0..(board_width - 1)) \X (0..(board_height - 1)) :
        \A i \in 1..Len(offs) : InBoard(a[1] + offs[i].dx, a[2] + offs[i].dy)}

\* The maps handed to score_move as dist: the one make_move computes, and the
\* maps that hold the sentinel -1 or 0 in every cell.
DistMaps ==
    {calculate_distance_map}
        \cup {[y \in 0..(board_height - 1) |-> [x \in 0..(board_width - 1) |-> v]] :
                 v \in {-1, 0}}

\* Direct calls of score_move, one for every map in DistMaps and every anchor
\* that keeps the piece on the board; feat holds the locals <<new_cells,
\* liberties, heat_sum, adj_op>> at the end of the loop.
ScoreMove ==
    /\ pc = "trimmed"
    /\ ret' = [fn |-> "score_move",
               calls |-> {[dist |-> d, x |-> a[1], y |-> a[2],
                           feat |-> SumFeatures(a[1], a[2], d, piece_offsets, 1),
                           score |-> score_move(a[1], a[2], d, piece_offsets)] :
                          d \in DistMaps, a \in OnBoardAnchors(piece_offsets)}]
    /\ pc' = "called"
    /\ UNCHANGED <<player, board_width, board_height, board, piece_width,
                   piece_height, piece, piece_offsets, trim_off_x, trim_off_y,
                   legal_moves, best, stdout, stdin, frame>>

\* ------------------------------------------- pieces larger than the board
\* One turn on a narrow board with raw pieces up to FitPieceSide cells a side.
InitFit ==
    /\ player \in Player
    /\ board_width \in 1..FitBoardWidth
    /\ board_height \in 1..FitBoardHeight
    /\ \E stones \in UpTo(CellsOf(board_width, board_height), MaxStones) :
         \E colour \in [stones -> {"Player1", "Player2"}] :
            board = BoardOf(board_width, board_height, colour)
    /\ piece_width \in 0..FitPieceSide
    /\ piece_height \in 0..FitPieceSide
    /\ \E filled \in UpTo(CellsOf(piece_width, piece_height), FitMaxFilled) :
         piece = PieceOf(piece_width, piece_height, filled)
    /\ piece_offsets = << >>
    /\ trim_off_x = 0
    /\ trim_off_y = 0
    /\ pc = "parsed"
    /\ legal_moves = << >>
    /\ best = << >>
    /\ stdout = << >>
    /\ ret = [fn |-> "none"]
    /\ stdin = << >>
    /\ frame = [fn |-> "none"]

NextFit == TrimPiece \/ MakeMove \/ EnumerateMoves \/ ScoreMove

SpecFit == InitFit /\ [][NextFit]_vars

\* ------------------------------------------------ the distance map on its own
\* A direct call of calculate_distance_map; it reads the board and the player.
CalculateDistanceMap ==
    /\ pc = "parsed"
    /\ ret' = [fn |-> "calculate_distance_map", val |-> calculate_distance_map]
    /\ pc' = "called"
    /\ UNCHANGED <<player, board_width, board_height, board, piece_width,
                   piece_height, piece, piece_offsets, trim_off_x, trim_off_y,
                   legal_moves, best, stdout, stdin, frame>>

\* Wider boards with a one-cell piece.
InitMap ==
    /\ player \in Player
    /\ board_width \in 1..MapMaxWidth
    /\ board_height \in 1..MapMaxHeight
    /\ \E stones \in UpTo(CellsOf(board_width, board_height), MapMaxStones) :
         \E colour \in [stones -> {"Player1", "Player2"}] :
            board = BoardOf(board_width, board_height, colour)
    /\ piece_width = 1
    /\ piece_height = 1
    /\ piece = PieceOf(1, 1, {<<0, 0>>})
    /\ piece_offsets = << >>
    /\ trim_off_x = 0
    /\ trim_off_y = 0
    /\ pc = "parsed"
    /\ legal_moves = << >>
    /\ best = << >>
    /\ stdout = << >>
    /\ ret = [fn |-> "none"]
    /\ stdin = << >>
    /\ frame = [fn |-> "none"]

NextMap == CalculateDistanceMap

SpecMap == InitMap /\ [][NextMap]_vars

\* ------------------------------------------------ the weights on their own
\* A one-row board: n1 cells of Player1, then n2 cells of Player2, then empty.
RowBoard(w, n1, n2) ==
    [y \in {0} |->
        [x \in 0..(w - 1) |->
            IF x < n1 THEN "Player1" ELSE IF x < n1 + n2 THEN "Player2" ELSE "Empty"]]

\* A parsed turn on a one-row board of at most max_cells cells.
RowInit(max_cells) ==
    /\ player \in Player
    /\ board_width \in 1..max_cells
    /\ board_height = 1
    /\ \E n1 \in 0..board_width : \E n2 \in 0..(board_width - n1) :
          board = RowBoard(board_width, n1, n2)
    /\ piece_width = 1
    /\ piece_height = 1
    /\ piece = PieceOf(1, 1, {<<0, 0>>})
    /\ piece_offsets = << >>
    /\ trim_off_x = 0
    /\ trim_off_y = 0
    /\ pc = "parsed"
    /\ legal_moves = << >>
    /\ best = << >>
    /\ stdout = << >>
    /\ ret = [fn |-> "none"]
    /\ stdin = << >>
    /\ frame = [fn |-> "none"]

\* score_move up to its choice of weights: my_t, op_t, occ, total, p and the
\* tuple (w_new, w_lib, w_adj, w_heat).
ChooseWeights ==
    /\ pc = "parsed"
    /\ ret' = [fn |-> "weights",
               val |-> PhaseWeights(count_my_territory + count_opponent_territory,
                                    board_width * board_height)]
    /\ pc' = "called"
    /\ UNCHANGED <<player, board_width, board_height, board, piece_width,
                   piece_height, piece, piece_offsets, trim_off_x, trim_off_y,
                   legal_moves, best, stdout, stdin, frame>>

InitPhase == RowInit(PhaseMaxCells)

NextPhase == ChooseWeights

SpecPhase == InitPhase /\ [][NextPhase]_vars

\* The values best_conn can hold after its loop: a distance when the mover
\* owns a cell, i32::MAX when not.
BestConnValues ==
    IF count_my_territory > 0 THEN 0..CombineMaxFeature ELSE {I32Max}

\* score_move from the end of its feature loop on, for two placements a and b
\* on the same board whose liberties, heat and adjacency totals and best_conn
\* are the same.  A claimed cell has at most four neighbours, and a placement
\* that claims no cell has every total 0.
CombineScores ==
    /\ pc = "parsed"
    /\ \E new_a, new_b, liberties, heat_sum, adj_op \in 0..CombineMaxFeature :
       \E best_conn \in BestConnValues :
          /\ liberties <= 4 * Min2(new_a, new_b)
          /\ adj_op <= 4 * Min2(new_a, new_b)
          /\ heat_sum <= (board_width + board_height) * Min2(new_a, new_b)
          /\ ret' = [fn |-> "combine",
                     a |-> <<new_a, liberties, heat_sum, adj_op>>,
                     b |-> <<new_b, liberties, heat_sum, adj_op>>,
                     best_conn |-> best_conn,
                     score_a |-> ScoreTotal(count_my_territory, count_opponent_territory,
                                            <<new_a, liberties, heat_sum, adj_op>>,
                                            PhaseWeights(count_my_territory
                                                           + count_opponent_territory,
                                                         board_width * board_height),
                                            best_conn),
                     score_b |-> ScoreTotal(count_my_territory, count_opponent_territory,
                                            <<new_b, liberties, heat_sum, adj_op>>,
                                            PhaseWeights(count_my_territory
                                                           + count_opponent_territory,
                                                         board_width * board_height),
                                            best_conn)]
    /\ pc' = "called"
    /\ UNCHANGED <<player, board_width, board_height, board, piece_width,
                   piece_height, piece, piece_offsets, trim_off_x, trim_off_y,
                   legal_moves, best, stdout, stdin, frame>>

InitCombine == RowInit(CombineMaxCells)

NextCombine == CombineScores

SpecCombine == InitCombine /\ [][NextCombine]_vars

\* ------------------------------------------------- a five by five board
\* One turn on a 5 by 5 board with one cell of each player and a piece of one
\* Filled cell.
InitScenario ==
    /\ player \in Player
    /\ board_width = 5
    /\ board_height = 5
    /\ \E p1 \in CellsOf(5, 5) : \E p2 \in CellsOf(5, 5) \ {p1} :
          board = BoardOf(5, 5, [c \in {p1, p2} |->
                                   IF c = p1 THEN "Player1" ELSE "Player2"])
    /\ piece_width = 1
    /\ piece_height = 1
    /\ piece = PieceOf(1, 1, {<<0, 0>>})
    /\ piece_offsets = << >>
    /\ trim_off_x = 0
    /\ trim_off_y = 0
    /\ pc = "parsed"
    /\ legal_moves = << >>
    /\ best = << >>
    /\ stdout = << >>
    /\ ret = [fn |-> "none"]
    /\ stdin = << >>
    /\ frame = [fn |-> "none"]

NextScenario == TrimPiece \/ MakeMove \/ EnumerateMoves

SpecScenario == InitScenario /\ [][NextScenario]_vars

\* ------------------------------------- the distance map, one pass at a time
\* How many times c occurs in seq.
Occurrences(seq, c) == Cardinality({i \in 1..Len(seq) : seq[i] = c})

\* calculate_distance_map up to its while loop.  frame holds the locals
\* distance_map and queue, the number of passes of the loop made so far and,
\* for every cell, how many times it has been pushed on the queue.
BfsStart ==
    /\ pc = "parsed"
    /\ \E st \in {BfsSeed} :
          frame' = [fn |-> "calculate_distance_map", st |-> st, pops |-> 0,
                    pushes |-> [c \in CellsOf(board_width, board_height) |->
                                  Occurrences(st.queue, c)]]
    /\ pc' = "searching"
    /\ UNCHANGED <<player, board_width, board_height, board, piece_width,
                   piece_height, piece, piece_offsets, trim_off_x, trim_off_y,
                   legal_moves, best, stdout, ret, stdin>>

\* One pass of the while loop.
BfsDequeue ==
    /\ pc = "searching"
    /\ frame.st.queue # << >>
    /\ \E st \in {BfsStep(frame.st)} :
       \E pushed \in {SubSeq(st.queue, Len(frame.st.queue), Len(st.queue))} :
          frame' = [frame EXCEPT
                       !.st = st,
                       !.pops = @ + 1,
                       !.pushes = [c \in DOMAIN @ |-> @[c] + Occurrences(pushed, c)]]
    /\ UNCHANGED <<player, board_width, board_height, board, piece_width,
                   piece_height, piece, piece_offsets, trim_off_x, trim_off_y,
                   pc, legal_moves, best, stdout, ret, stdin>>

\* The loop ends when pop_front finds the queue empty; the map is returned.
BfsReturn ==
    /\ pc = "searching"
    /\ frame.st.queue = << >>
    /\ ret' = [fn |-> "calculate_distance_map", val |-> frame.st.dist]
    /\ pc' = "called"
    /\ UNCHANGED <<player, board_width, board_height, board, piece_width,
                   piece_height, piece, piece_offsets, trim_off_x, trim_off_y,
                   legal_moves, best, stdout, stdin, frame>>

InitBfs ==
    /\ player \in Player
    /\ board_width \in 1..BfsMaxWidth
    /\ board_height \in 1..BfsMaxHeight
    /\ \E stones \in UpTo(CellsOf(board_width, board_height), BfsMaxStones) :
         \E colour \in [stones -> {"Player1", "Player2"}] :
            board = BoardOf(board_width, board_height, colour)
    /\ piece_width = 1
    /\ piece_height = 1
    /\ piece = PieceOf(1, 1, {<<0, 0>>})
    /\ piece_offsets = << >>
    /\ trim_off_x = 0
    /\ trim_off_y = 0
    /\ pc = "parsed"
    /\ legal_moves = << >>
    /\ best = << >>
    /\ stdout = << >>
    /\ ret = [fn |-> "none"]
    /\ stdin = << >>
    /\ frame = [fn |-> "none"]

NextBfs == BfsStart \/ BfsDequeue \/ BfsReturn

\* The function is straight-line sequential code: a call that has started
\* keeps taking its next step.
SpecBfs == InitBfs /\ [][NextBfs]_vars /\ WF_vars(NextBfs)

\* -------------------------------------------- pieces at the board's edge
\* One turn on a one-row board with a one-row raw piece that may be wider
\* than the board.
InitEdge ==
    /\ player \in Player
    /\ board_width \in 1..EdgeBoardWidth
    /\ board_height = 1
    /\ \E colour \in [CellsOf(board_width, 1) -> Cell] :
          board = [y \in {0} |-> [x \in 0..(board_width - 1) |-> colour[<<x, 0>>]]]
    /\ piece_width \in 0..EdgePieceWidth
    /\ piece_height = 1
    /\ \E filled \in SUBSET CellsOf(piece_width, 1) :
          piece = PieceOf(piece_width, 1, filled)
    /\ piece_offsets = << >>
    /\ trim_off_x = 0
    /\ trim_off_y = 0
    /\ pc = "parsed"
    /\ legal_moves = << >>
    /\ best = << >>
    /\ stdout = << >>
    /\ ret = [fn |-> "none"]
    /\ stdin = << >>
    /\ frame = [fn |-> "none"]

NextEdge == TrimPiece \/ MakeMove

SpecEdge == InitEdge /\ [][NextEdge]_vars

\* ------------------------------------------ the connectivity bias on its own
\* A board whose first n1 cells in row-major order are Player1's and whose
\* next n2 cells are Player2's.
FilledBoard(w, h, n1, n2) ==
    [y \in 0..(h - 1) |->
        [x \in 0..(w - 1) |->
            IF y * w + x < n1 THEN "Player1"
            ELSE IF y * w + x < n1 + n2 THEN "Player2" ELSE "Empty"]]

InitConn ==
    /\ player \in Player
    /\ board_width \in 1..ConnMaxWidth
    /\ board_height \in 1..ConnMaxHeight
    /\ \E n1 \in 0..(board_width * board_height) :
          \E n2 \in 0..(board_width * board_height - n1) :
             board = FilledBoard(board_width, board_height, n1, n2)
    /\ piece_width = 1
    /\ piece_height = 1
    /\ piece = PieceOf(1, 1, {<<0, 0>>})
    /\ piece_offsets = << >>
    /\ trim_off_x = 0
    /\ trim_off_y = 0
    /\ pc = "parsed"
    /\ legal_moves = << >>
    /\ best = << >>
    /\ stdout = << >>
    /\ ret = [fn |-> "none"]
    /\ stdin = << >>
    /\ frame = [fn |-> "none"]

\* What the end of score_move adds to s for best_conn.
ConnTerm(my_t, best_conn) == IF my_t > 0 THEN ConnBonus(best_conn) ELSE 0

\* best_conn after its loop and the amount the end of score_move adds to s.
ConnCall(my_t, best_conn) ==
    [best_conn |-> best_conn, bonus |-> ConnTerm(my_t, best_conn)]

\* The end of score_move, for every anchor (x, y) on the board.
ConnectivityBias ==
    /\ pc = "parsed"
    /\ \E pos \in {get_my_territory_positions} :
          ret' = [fn |-> "best_conn",
                  val |-> [a \in CellsOf(board_width, board_height) |->
                             ConnCall(Len(pos), BestConn(a[1], a[2], pos, 1, I32Max))]]
    /\ pc' = "called"
    /\ UNCHANGED <<player, board_width, board_height, board, piece_width,
                   piece_height, piece, piece_offsets, trim_off_x, trim_off_y,
                   legal_moves, best, stdout, stdin, frame>>

NextConn == ConnectivityBias

SpecConn == InitConn /\ [][NextConn]_vars

\* ------------------------------------------------------- the binary, main.rs
\* main.rs declares its own GameState with its own methods; gs is the self of
\* a call, a record of the fields the methods read.
Self ==
    [player |-> player, board_width |-> board_width, board_height |-> board_height,
     board |-> board, piece_width |-> piece_width, piece_height |-> piece_height,
     piece |-> piece]

MainMyCell(gs) == IF gs.player = "One" THEN "Player1" ELSE "Player2"
MainOpCell(gs) == IF gs.player = "One" THEN "Player2" ELSE "Player1"

MainOffBoard(gs, board_x, board_y) ==
    board_x < 0 \/ board_x >= gs.board_width \/ board_y < 0 \/ board_y >= gs.board_height

\* The loop of main.rs's is_legal_move over piece_offsets from index i on; c
\* holds the counters own_overlaps, opponent_overlaps and valid_placements.
RECURSIVE main_is_legal_loop(_, _, _, _, _, _)
main_is_legal_loop(gs, x, y, offs, i, c) ==
    IF i > Len(offs)
    THEN c.valid_placements > 0 /\ c.own_overlaps = 1 /\ c.opponent_overlaps = 0
    ELSE LET board_x == x + offs[i].dx
             board_y == y + offs[i].dy
         IN IF MainOffBoard(gs, board_x, board_y)
            THEN main_is_legal_loop(gs, x, y, offs, i + 1, c)
            ELSE IF gs.board[board_y][board_x] = MainMyCell(gs)
            THEN main_is_legal_loop(gs, x, y, offs, i + 1,
                    [c EXCEPT !.valid_placements = @ + 1, !.own_overlaps = @ + 1])
            ELSE IF gs.board[board_y][board_x] = MainOpCell(gs)
            THEN main_is_legal_loop(gs, x, y, offs, i + 1,
                    [c EXCEPT !.valid_placements = @ + 1, !.opponent_overlaps = @ + 1])
            ELSE main_is_legal_loop(gs, x, y, offs, i + 1,
                    [c EXCEPT !.valid_placements = @ + 1])

main_is_legal_move(gs, x, y, offs) ==
    main_is_legal_loop(gs, x, y, offs, 1,
        [own_overlaps |-> 0, opponent_overlaps |-> 0, valid_placements |-> 0])

\* for y in start_y..end_y { for x in start_x..end_x { if legal push } }, the
\* ends excluded.
MainScan(gs, start_x, end_x, start_y, end_y, offs) ==
    LET nx == end_x - start_x
        ny == end_y - start_y
    IN IF nx <= 0 \/ ny <= 0 THEN << >>
       ELSE LET all == [k \in 1..(nx * ny) |->
                           <<start_x + ((k - 1) % nx), start_y + ((k - 1) \div nx)>>]
                Legal(a) == main_is_legal_move(gs, a[1], a[2], offs)
            IN SelectSeq(all, Legal)

search_margin == 10

main_find_legal_moves(gs, offs) ==
    MainScan(gs, -search_margin, gs.board_width + search_margin,
             -search_margin, gs.board_height + search_margin, offs)

main_emergency_move_search(gs, offs) ==
    MainScan(gs, 0, gs.board_width, 0, gs.board_height, offs)

main_count_empty_neighbors(gs, x, y) ==
    Cardinality({i \in 1..4 :
        /\ ~MainOffBoard(gs, x + directions[i][1], y + directions[i][2])
        /\ gs.board[y + directions[i][2]][x + directions[i][1]] = "Empty"})

\* What one offset adds to <<score, cells_captured>> in main.rs's score_move.
MainCellScore(gs, board_x, board_y) ==
    IF MainOffBoard(gs, board_x, board_y) THEN <<0, 0>>
    ELSE IF gs.board[board_y][board_x] = MainMyCell(gs) THEN <<0, 0>>
    ELSE IF gs.board[board_y][board_x] = "Empty"
    THEN <<1000 + main_count_empty_neighbors(gs, board_x, board_y)
                   * main_count_empty_neighbors(gs, board_x, board_y) * 1000, 1>>
    ELSE <<0, 0>>

RECURSIVE MainSumScore(_, _, _, _, _)
MainSumScore(gs, x, y, offs, i) ==
    IF i > Len(offs) THEN <<0, 0>>
    ELSE LET one == MainCellScore(gs, x + offs[i].dx, y + offs[i].dy)
             more == MainSumScore(gs, x, y, offs, i + 1)
         IN <<one[1] + more[1], one[2] + more[2]>>

MainScoreOf(sum) == IF sum[2] > 0 THEN sum[1] + sum[2] * sum[2] * 5000 ELSE 0

main_score_move(gs, x, y, offs) == MainScoreOf(MainSumScore(gs, x, y, offs, 1))

\* for &(x, y) in &legal_moves { if score > best_score { ... } }
RECURSIVE MainSelectBest(_, _, _, _, _, _)
MainSelectStep(gs, moves, offs, i, best_move, best_score, score) ==
    IF score > best_score
    THEN MainSelectBest(gs, moves, offs, i + 1, moves[i], score)
    ELSE MainSelectBest(gs, moves, offs, i + 1, best_move, best_score)

MainSelectBest(gs, moves, offs, i, best_move, best_score) ==
    IF i > Len(moves) THEN best_move
    ELSE MainSelectStep(gs, moves, offs, i, best_move, best_score,
                        main_score_move(gs, moves[i][1], moves[i][2], offs))

\* legal_moves of main.rs's make_move after the fall-back.
MainLegalMoves(gs, offs) ==
    OrElse(main_find_legal_moves(gs, offs), main_emergency_move_search(gs, offs))

\* The line main.rs's make_move prints for legal_moves = moves; its distance
\* map is computed and handed to score_move, which does not read it.
MainMoveLine(gs, moves, offs) ==
    IF moves = << >> THEN PassLine
    ELSE MainSelectBest(gs, moves, offs, 1, moves[1],
                        main_score_move(gs, moves[1][1], moves[1][2], offs))

main_make_move(gs, offs) == MainMoveLine(gs, MainLegalMoves(gs, offs), offs)

\* A direct call of main.rs's make_move after trim_piece, whose offsets are
\* those of the library's trim_piece.
MainMakeMove ==
    /\ pc = "trimmed"
    /\ \E moves \in {MainLegalMoves(Self, piece_offsets)} :
          /\ legal_moves' = moves
          /\ stdout' = Append(stdout, MainMoveLine(Self, moves, piece_offsets))
    /\ pc' = "moved"
    /\ UNCHANGED <<player, board_width, board_height, board, piece_width,
                   piece_height, piece, piece_offsets, trim_off_x,
                   trim_off_y, best, ret, stdin, frame>>

\* Direct calls of main.rs's is_legal_move and of the library's, one of each
\* for every anchor on or just off the board.
IsLegalMoveBoth ==
    /\ pc = "trimmed"
    /\ ret' = [fn |-> "is_legal_move_both",
               bin |-> [a \in ProbeAnchors |->
                          main_is_legal_move(Self, a[1], a[2], piece_offsets)],
               lib |-> [a \in ProbeAnchors |->
                          is_legal_move(a[1], a[2], piece_offsets)]]
    /\ pc' = "called"
    /\ UNCHANGED <<player, board_width, board_height, board, piece_width,
                   piece_height, piece, piece_offsets, trim_off_x, trim_off_y,
                   legal_moves, best, stdout, stdin, frame>>

NextBinary == TrimPiece \/ MainMakeMove \/ IsLegalMoveBoth

SpecBinary == InitEdge /\ [][NextBinary]_vars

\* ------------------------------------------------------ main's input loop
\* A line of standard input. kind is what the line starts with: "exec"
\* ("$$$ exec p"), "anfield" ("Anfield "), "piece" ("Piece "), "header" (the
\* column header of a board) or "row" (a line of cell symbols with no blank).
\* parts are the tokens after the keyword, a number that does not parse as
\* usize being negative; text is the symbols of a row, or the player's digit
\* of an exec line. turn is the turn the line belongs to, 0 before the first
\* one; the program does not read it.
Line(turn, kind, parts, text) ==
    [turn |-> turn, kind |-> kind, parts |-> parts, text |-> text]

GameState_new ==
    [player |-> "One", board_width |-> 0, board_height |-> 0, board |-> << >>,
     piece_width |-> 0, piece_height |-> 0, piece |-> << >>]

main_parse_player(gs, line) ==
    IF line.text = << >> THEN gs
    ELSE IF line.text[1] = "1" THEN [gs EXCEPT !.player = "One"]
    ELSE IF line.text[1] = "2" THEN [gs EXCEPT !.player = "Two"]
    ELSE gs

\* parts[i].parse::<usize>() is Ok
ParsesAsUsize(token) == token >= 0

main_parse_board_dimensions(gs, line) ==
    IF Len(line.parts) < 2 THEN [ok |-> FALSE, gs |-> gs]
    ELSE IF ~ParsesAsUsize(line.parts[1]) THEN [ok |-> FALSE, gs |-> gs]
    ELSE IF ~ParsesAsUsize(line.parts[2])
    THEN [ok |-> FALSE, gs |-> [gs EXCEPT !.board_width = line.parts[1]]]
    ELSE [ok |-> TRUE,
          gs |-> [gs EXCEPT !.board_width = line.parts[1],
                            !.board_height = line.parts[2],
                            !.board = [y \in 0..(line.parts[2] - 1) |->
                                          [x \in 0..(line.parts[1] - 1) |-> "Empty"]]]]

main_parse_piece_dimensions(gs, line) ==
    IF Len(line.parts) < 2 THEN [ok |-> FALSE, gs |-> gs]
    ELSE IF ~ParsesAsUsize(line.parts[1]) THEN [ok |-> FALSE, gs |-> gs]
    ELSE IF ~ParsesAsUsize(line.parts[2])
    THEN [ok |-> FALSE, gs |-> [gs EXCEPT !.piece_width = line.parts[1]]]
    ELSE [ok |-> TRUE,
          gs |-> [gs EXCEPT !.piece_width = line.parts[1],
                            !.piece_height = line.parts[2],
                            !.piece = [r \in 0..(line.parts[2] - 1) |->
                                          [c \in 0..(line.parts[1] - 1) |-> "Empty"]]]]

\* The symbols a line shows when it is read as a row: those of a row line,
\* and for a keyword or header line a first symbol ("?") that stands for no
\* cell of a board or of a piece.
RowContent(line) == IF line.kind = "row" THEN line.text ELSE <<"?">>

BoardSymbol(ch) ==
    IF ch = "." THEN "Empty"
    ELSE IF ch \in {"@", "a"} THEN "Player1"
    ELSE IF ch \in {"$", "s"} THEN "Player2"
    ELSE "unknown"

PieceSymbol(ch) ==
    IF ch = "." THEN "Empty"
    ELSE IF ch \in {"#", "O", "o"} THEN "Filled"
    ELSE "unknown"

\* for (col_idx, ch) in line_content.chars().take(board_width).enumerate()
RECURSIVE ParseBoardCells(_, _, _, _)
ParseBoardCells(gs, content, row_idx, col_idx) ==
    IF col_idx >= gs.board_width THEN [ok |-> TRUE, gs |-> gs]
    ELSE IF BoardSymbol(content[col_idx + 1]) = "unknown" THEN [ok |-> FALSE, gs |-> gs]
    ELSE ParseBoardCells(
            [gs EXCEPT !.board[row_idx][col_idx] = BoardSymbol(content[col_idx + 1])],
            content, row_idx, col_idx + 1)

main_parse_board_row(gs, line, row_idx) ==
    IF Len(RowContent(line)) < gs.board_width THEN [ok |-> FALSE, gs |-> gs]
    ELSE ParseBoardCells(gs, RowContent(line), row_idx, 0)

RECURSIVE ParsePieceCells(_, _, _, _)
ParsePieceCells(gs, content, row_idx, col_idx) ==
    IF col_idx >= gs.piece_width THEN [ok |-> TRUE, gs |-> gs]
    ELSE IF PieceSymbol(content[col_idx + 1]) = "unknown" THEN [ok |-> FALSE, gs |-> gs]
    ELSE ParsePieceCells(
            [gs EXCEPT !.piece[row_idx][col_idx] = PieceSymbol(content[col_idx + 1])],
            content, row_idx, col_idx + 1)

main_parse_piece_row(gs, line, row_idx) ==
    IF Len(RowContent(line)) < gs.piece_width THEN [ok |-> FALSE, gs |-> gs]
    ELSE ParsePieceCells(gs, RowContent(line), row_idx, 0)

MainFilledCells(gs) ==
    {rc \in (0..(gs.piece_height - 1)) \X (0..(gs.piece_width - 1)) :
        gs.piece[rc[1]][rc[2]] = "Filled"}

MainTrimBounds(gs, filled) ==
    [min_row |-> SetMin({rc[1] : rc \in filled}, gs.piece_height),
     max_row |-> SetMax({rc[1] : rc \in filled}, 0),
     min_col |-> SetMin({rc[2] : rc \in filled}, gs.piece_width),
     max_col |-> SetMax({rc[2] : rc \in filled}, 0)]

\* The second half of main.rs's trim_piece, for the bounds b of a piece that
\* has a filled cell.
MainCrop(gs, b) ==
    LET new_height == b.max_row - b.min_row + 1
        new_width == b.max_col - b.min_col + 1
        Filled(k) == gs.piece[b.min_row + ((k - 1) \div new_width)]
                             [b.min_col + ((k - 1) % new_width)] = "Filled"
        Offset(k) == [dx |-> (k - 1) % new_width, dy |-> (k - 1) \div new_width]
        cells == [k \in 1..(new_height * new_width) |-> k]
        kept == SelectSeq(cells, Filled)
    IN [panicked |-> FALSE,
        gs |-> [gs EXCEPT !.piece = [r \in 0..(new_height - 1) |->
                                        [c \in 0..(new_width - 1) |->
                                            gs.piece[b.min_row + r][b.min_col + c]]],
                          !.piece_width = new_width,
                          !.piece_height = new_height],
        offsets |-> [i \in 1..Len(kept) |-> Offset(kept[i])]]

\* main.rs's trim_piece: the offsets and the self it leaves; a piece of no
\* rows and no columns passes the emptiness test and panics on piece[0][0].
MainTrimmed(gs, filled, b) ==
    IF b.min_row > b.max_row \/ b.min_col > b.max_col
    THEN [panicked |-> FALSE, gs |-> gs, offsets |-> << >>]
    ELSE IF filled = {}
    THEN [panicked |-> TRUE, gs |-> gs, offsets |-> << >>]
    ELSE MainCrop(gs, b)

main_trim_piece(gs) ==
    MainTrimmed(gs, MainFilledCells(gs), MainTrimBounds(gs, MainFilledCells(gs)))

\* What one pass of main's outer loop leaves: self, the lines not read yet,
\* the lines printed, and whether make_move was invoked.
Pass(gs, lines, out, called) ==
    [gs |-> gs, lines |-> lines, out |-> out, called |-> called, panicked |-> FALSE]

\* for row_idx in 0..board_height: an unreadable row sets board_error and the
\* loop goes on, the end of input sets it and breaks.
RECURSIVE ReadBoardRows(_, _, _, _)
ReadBoardRows(gs, lines, row_idx, board_error) ==
    IF row_idx >= gs.board_height
    THEN [gs |-> gs, lines |-> lines, error |-> board_error]
    ELSE IF lines = << >>
    THEN [gs |-> gs, lines |-> lines, error |-> TRUE]
    ELSE ReadBoardRows(main_parse_board_row(gs, Head(lines), row_idx).gs, Tail(lines),
                       row_idx + 1,
                       board_error \/ ~main_parse_board_row(gs, Head(lines), row_idx).ok)

RECURSIVE ReadPieceRows(_, _, _, _)
ReadPieceRows(gs, lines, row_idx, piece_error) ==
    IF row_idx >= gs.piece_height
    THEN [gs |-> gs, lines |-> lines, error |-> piece_error]
    ELSE IF lines = << >>
    THEN [gs |-> gs, lines |-> lines, error |-> TRUE]
    ELSE ReadPieceRows(main_parse_piece_row(gs, Head(lines), row_idx).gs, Tail(lines),
                       row_idx + 1,
                       piece_error \/ ~main_parse_piece_row(gs, Head(lines), row_idx).ok)

\* trim_piece and make_move on the piece just read.
PlaceTrimmed(t, lines) ==
    IF t.panicked
    THEN [gs |-> t.gs, lines |-> lines, out |-> << >>, called |-> FALSE,
          panicked |-> TRUE]
    ELSE Pass(t.gs, lines, <<main_make_move(t.gs, t.offsets)>>, TRUE)

PlacePiece(rows) ==
    IF rows.error THEN Pass(rows.gs, rows.lines, <<PassLine>>, FALSE)
    ELSE PlaceTrimmed(main_trim_piece(rows.gs), rows.lines)

\* The body of if next_line.starts_with("Piece "), dims being the result of
\* parse_piece_dimensions: a failure breaks with found_piece set and nothing
\* printed.
ReadPiece(dims, lines) ==
    IF ~dims.ok THEN Pass(dims.gs, lines, << >>, FALSE)
    ELSE PlacePiece(ReadPieceRows(dims.gs, lines, 0, FALSE))

\* while let Some(line_result) = lines.next(): lines that do not start with
\* "Piece " are dropped; at the end of input found_piece is false.
RECURSIVE FindPiece(_, _)
FindPiece(gs, lines) ==
    IF lines = << >> THEN Pass(gs, lines, <<PassLine>>, FALSE)
    ELSE IF Head(lines).kind # "piece" THEN FindPiece(gs, Tail(lines))
    ELSE ReadPiece(main_parse_piece_dimensions(gs, Head(lines)), Tail(lines))

ReadPieceAfter(rows) ==
    IF rows.error THEN Pass(rows.gs, rows.lines, <<PassLine>>, FALSE)
    ELSE FindPiece(rows.gs, rows.lines)

\* The branch line.starts_with("Anfield "), dims being the result of
\* parse_board_dimensions and lines what follows the Anfield line.
ReadTurn(dims, lines) ==
    IF ~dims.ok THEN Pass(dims.gs, lines, <<PassLine>>, FALSE)
    ELSE IF lines = << >> THEN Pass(dims.gs, lines, <<PassLine>>, FALSE)
    ELSE ReadPieceAfter(ReadBoardRows(dims.gs, Tail(lines), 0, FALSE))

\* One pass of while let Some(line_result) = lines.next() in main, every
\* line being read without an I/O error.
MainPass(gs, lines) ==
    IF Head(lines).kind = "exec"
    THEN Pass(main_parse_player(gs, Head(lines)), Tail(lines), << >>, FALSE)
    ELSE IF Head(lines).kind = "anfield"
    THEN ReadTurn(main_parse_board_dimensions(gs, Head(lines)), Tail(lines))
    ELSE Pass(gs, Tail(lines), << >>, FALSE)

\* The lines main prints from self = gs on the input lines.
RECURSIVE MainOutput(_, _)
MainOutput(gs, lines) ==
    IF lines = << >> THEN << >>
    ELSE IF MainPass(gs, lines).panicked THEN MainPass(gs, lines).out
    ELSE MainPass(gs, lines).out
            \o MainOutput(MainPass(gs, lines).gs, MainPass(gs, lines).lines)

\* ---- the inputs of the loop
LoopMaxTurns == 2
LoopBoardWidth == 2
LoopMaxStones == 1
LoopPieceWidth == 2

\* One-row boards, as the symbols of their row.
LoopBoards ==
    {b \in UNION {[1..w -> {".", "@", "$"}] : w \in 1..LoopBoardWidth} :
        Cardinality({i \in DOMAIN b : b[i] # "."}) <= LoopMaxStones}

\* One-row pieces with every cell filled.
LoopPieces == {[i \in 1..w |-> "#"] : w \in 1..LoopPieceWidth}

\* The ways the framing of a turn is broken.
Malformations ==
    {"board_dimensions", "no_header", "no_board_row", "short_board_row",
     "board_symbol", "no_piece", "piece_dimensions", "no_piece_row",
     "short_piece_row", "piece_symbol"}

\* A turn: a board, a piece, and how the turn is framed ("ok" or a
\* malformation); the malformed turns are those of the widest boards and of
\* the one-cell piece.
Turns ==
    [framing : {"ok"}, board : LoopBoards, piece : LoopPieces]
    \cup [framing : Malformations,
          board : {b \in LoopBoards : Len(b) = LoopBoardWidth},
          piece : {p \in LoopPieces : Len(p) = 1}]

\* The lines of turn t, the k-th of the input.
TurnLines(k, t) ==
    <<Line(k, "anfield",
           <<IF t.framing = "board_dimensions" THEN -1 ELSE Len(t.board), 1>>, << >>)>>
    \o (IF t.framing = "no_header" THEN << >>
        ELSE <<Line(k, "header", << >>, << >>)>>)
    \o (IF t.framing = "no_board_row" THEN << >>
        ELSE IF t.framing = "short_board_row"
        THEN <<Line(k, "row", << >>, Tail(t.board))>>
        ELSE IF t.framing = "board_symbol"
        THEN <<Line(k, "row", << >>, <<"#">> \o Tail(t.board))>>
        ELSE <<Line(k, "row", << >>, t.board)>>)
    \o (IF t.framing = "no_piece" THEN << >>
        ELSE <<Line(k, "piece",
                    <<IF t.framing = "piece_dimensions" THEN -1 ELSE Len(t.piece), 1>>,
                    << >>)>>)
    \o (IF t.framing \in {"no_piece", "no_piece_row"} THEN << >>
        ELSE IF t.framing = "short_piece_row"
        THEN <<Line(k, "row", << >>, Tail(t.piece))>>
        ELSE IF t.framing = "piece_symbol"
        THEN <<Line(k, "row", << >>, <<"@">> \o Tail(t.piece))>>
        ELSE <<Line(k, "row", << >>, t.piece)>>)

RECURSIVE InputLines(_, _)
InputLines(turns, k) ==
    IF k > Len(turns) THEN << >>
    ELSE TurnLines(k, turns[k]) \o InputLines(turns, k + 1)

\* main starts on the exec line of player p followed by the turns; frame
\* remembers the input and, pass by pass, what each pass read and printed.
InitLoop ==
    /\ \E p \in {"1", "2"} : \E n \in 1..LoopMaxTurns : \E turns \in [1..n -> Turns] :
          /\ stdin = <<Line(0, "exec", << >>, <<p>>)>> \o InputLines(turns, 1)
          /\ frame = [fn |-> "main", exec |-> Line(0, "exec", << >>, <<p>>),
                      turns |-> turns, passes |-> << >>]
    /\ player = GameState_new.player
    /\ board_width = GameState_new.board_width
    /\ board_height = GameState_new.board_height
    /\ board = GameState_new.board
    /\ piece_width = GameState_new.piece_width
    /\ piece_height = GameState_new.piece_height
    /\ piece = GameState_new.piece
    /\ piece_offsets = << >>
    /\ trim_off_x = 0
    /\ trim_off_y = 0
    /\ pc = "reading"
    /\ legal_moves = << >>
    /\ best = << >>
    /\ stdout = << >>
    /\ ret = [fn |-> "none"]

\* One pass of main's outer loop; first and last are the turns of the first
\* and of the last line it read.
MainLoop ==
    /\ pc = "reading"
    /\ stdin # << >>
    /\ \E r \in {MainPass(Self, stdin)} :
          /\ player' = r.gs.player
          /\ board_width' = r.gs.board_width
          /\ board_height' = r.gs.board_height
          /\ board' = r.gs.board
          /\ piece_width' = r.gs.piece_width
          /\ piece_height' = r.gs.piece_height
          /\ piece' = r.gs.piece
          /\ stdin' = r.lines
          /\ stdout' = stdout \o r.out
          /\ frame' = [frame EXCEPT !.passes = Append(@,
                          [first |-> Head(stdin).turn,
                           last |-> stdin[Len(stdin) - Len(r.lines)].turn,
                           out |-> r.out, called |-> r.called])]
          /\ pc' = IF r.panicked THEN "panicked" ELSE "reading"
    /\ UNCHANGED <<piece_offsets, trim_off_x, trim_off_y, legal_moves, best, ret>>

\* lines.next() is None: main returns.
MainExit ==
    /\ pc = "reading"
    /\ stdin = << >>
    /\ pc' = "exited"
    /\ UNCHANGED <<player, board_width, board_height, board, piece_width,
                   piece_height, piece, piece_offsets, trim_off_x, trim_off_y,
                   legal_moves, best, stdout, ret, stdin, frame>>

NextLoop == MainLoop \/ MainExit

SpecLoop == InitLoop /\ [][NextLoop]_vars

\* ------------------------------------------------------------- ScoredMove
ScoredMove_new(x, y, score) == [x |-> x, y |-> y, score |-> score]

\* i32::cmp, an Ordering.
I32Cmp(a, b) == IF a < b THEN "Less" ELSE IF a > b THEN "Greater" ELSE "Equal"

\* Variant: no second tiebreaker, the comparison of y is returned.
cmp_without_x(self, other) ==
    IF I32Cmp(self.score, other.score) # "Equal"
    THEN I32Cmp(self.score, other.score)
    ELSE I32Cmp(other.y, self.y)

\* Ord for ScoredMove: the score, then y reversed, then x reversed.
cmp(self, other) ==
    IF I32Cmp(self.score, other.score) # "Equal"
    THEN I32Cmp(self.score, other.score)
    ELSE IF I32Cmp(other.y, self.y) # "Equal"
    THEN I32Cmp(other.y, self.y)
    ELSE I32Cmp(other.x, self.x)

\* PartialEq for ScoredMove.
eq(self, other) == self.score = other.score

\* The candidates compared: anchors of 0..OrderMaxCoord in x and in y, with
\* the score of a placement that claims nothing or one of 0..OrderMaxScore.
ScoredMoves ==
    {ScoredMove_new(x, y, s) :
        x \in 0..OrderMaxCoord, y \in 0..OrderMaxCoord,
        s \in {MinScore} \cup (0..OrderMaxScore)}

\* Calls of cmp and of == on three candidates a, b and c.
CompareMoves ==
    /\ pc = "parsed"
    /\ \E a, b, c \in ScoredMoves :
          ret' = [fn |-> "cmp", a |-> a, b |-> b, c |-> c,
                  ab |-> cmp(a, b), ba |-> cmp(b, a), bc |-> cmp(b, c),
                  ac |-> cmp(a, c), eq_ab |-> eq(a, b)]
    /\ pc' = "called"
    /\ UNCHANGED <<player, board_width, board_height, board, piece_width,
                   piece_height, piece, piece_offsets, trim_off_x, trim_off_y,
                   legal_moves, best, stdout, stdin, frame>>

InitOrder == RowInit(1)

NextOrder == CompareMoves

SpecOrder == InitOrder /\ [][NextOrder]_vars

\* ------------------------------------------------------------- properties
Range(seq) == {seq[i] : i \in 1..Len(seq)}
MinOf(S) == CHOOSE m \in S : \A e \in S : m <= e
MaxOf(S) == CHOOSE m \in S : \A e \in S : m >= e

\* The board cells a piece covers when anchored at (x, y).
Covered(x, y, offs) == {<<x + offs[i].dx, y + offs[i].dy>> : i \in 1..Len(offs)}

\* The placement rule: every covered cell on the board, none the opponent's,
\* exactly one the mover's.
LegalPlacement(x, y, offs) ==
    /\ \A c \in Covered(x, y, offs) : InBoard(c[1], c[2])
    /\ \A c \in Covered(x, y, offs) : board[c[2]][c[1]] # OpCell
    /\ Cardinality({c \in Covered(x, y, offs) : board[c[2]][c[1]] = MyCell}) = 1

BoardAnchors == (0..(board_width - 1)) \X (0..(board_height - 1))

\* The anchors on the board at which the normalised piece may legally be placed.
LegalAnchors == {a \in BoardAnchors : LegalPlacement(a[1], a[2], piece_offsets)}

\* C1: is_legal_move accepts an anchor exactly when every covered cell is on
\* the board, none is the opponent's and exactly one is the mover's.
C1_IsLegalIff ==
    (pc = "called" /\ ret.fn = "is_legal_move") =>
        \A a \in ProbeAnchors : ret.val[a] = LegalPlacement(a[1], a[2], piece_offsets)

\* Player Two is the mover; one anchor is accepted, one is rejected for an
\* opponent overlap and one for a cell off the board.
C1_Witness ==
    /\ pc = "called" /\ ret.fn = "is_legal_move" /\ player = "Two"
    /\ \E a \in ProbeAnchors : ret.val[a]
    /\ \E a \in BoardAnchors :
         /\ ~ret.val[a]
         /\ \A c \in Covered(a[1], a[2], piece_offsets) : InBoard(c[1], c[2])
         /\ \E c \in Covered(a[1], a[2], piece_offsets) : board[c[2]][c[1]] = OpCell
    /\ \E a \in ProbeAnchors :
         /\ ~ret.val[a]
         /\ \E c \in Covered(a[1], a[2], piece_offsets) : ~InBoard(c[1], c[2])

\* C2: on the non-pass branch make_move prints exactly one pair, and that
\* pair plus the anchor correction is an anchor the legality predicate accepts.
C2_EmittedIsLegal ==
    (pc = "moved" /\ legal_moves # << >>) =>
        /\ Len(stdout) = 1
        /\ LegalPlacement(stdout[1][1] + trim_off_x, stdout[1][2] + trim_off_y,
                          piece_offsets)

C2_Witness ==
    /\ pc = "moved" /\ legal_moves # << >> /\ trim_off_x > 0
    /\ Len(piece_offsets) >= 1

\* C3: make_move passes only when no anchor on the board is a legal placement
\* of the normalised piece.
C3_PassOnlyWithoutLegal ==
    (pc = "moved" /\ legal_moves = << >>) => LegalAnchors = {}

\* C4: the anchors found by find_legal_moves, or by emergency_move_search
\* when it finds none, include every legal anchor.
C4_NoLegalMoveMissed ==
    (pc = "called" /\ ret.fn = "enumerate") =>
        LegalAnchors \subseteq Range(OrElse(ret.bounded, ret.exhaustive))

\* C5: every anchor find_legal_moves returns is a legal placement, and
\* emergency_move_search returns every anchor find_legal_moves returns.
C5_EnumeratorsAgree ==
    (pc = "called" /\ ret.fn = "enumerate") =>
        /\ \A a \in Range(ret.bounded) : LegalPlacement(a[1], a[2], piece_offsets)
        /\ Range(ret.bounded) \subseteq Range(ret.exhaustive)

C5_Witness ==
    /\ pc = "called" /\ ret.fn = "enumerate"
    /\ Len(ret.bounded) >= 2
    /\ Len(piece_offsets) >= 2

\* C6: every enumerated anchor, less the correction, lies on the board, and
\* the printed pair is the chosen anchor less the correction, unclamped.
C6_EmittedOnBoard ==
    /\ (pc = "called" /\ ret.fn = "enumerate") =>
          \A a \in Range(ret.bounded) \cup Range(ret.exhaustive) :
             /\ 0 <= a[1] - trim_off_x /\ a[1] - trim_off_x < board_width
             /\ 0 <= a[2] - trim_off_y /\ a[2] - trim_off_y < board_height
    /\ (pc = "moved" /\ legal_moves # << >>) =>
          /\ stdout[1] = <<best[1] - trim_off_x, best[2] - trim_off_y>>
          /\ 0 <= stdout[1][1] /\ stdout[1][1] < board_width
          /\ 0 <= stdout[1][2] /\ stdout[1][2] < board_height

C6_Witness ==
    /\ pc = "moved" /\ legal_moves # << >> /\ trim_off_x > 0
    /\ stdout[1] = <<best[1] - trim_off_x, best[2] - trim_off_y>>

\* b is ahead of m in selection order: higher score, then lower y, then lower x.
Ahead(b, sb, m, sm) ==
    \/ sb > sm
    \/ sb = sm /\ b[2] < m[2]
    \/ sb = sm /\ b[2] = m[2] /\ b[1] <= m[1]

\* C7: the anchor make_move selects has the maximum score_move value among
\* the enumerated anchors and, among those of that score, the lowest y and
\* then the lowest x.
C7_SelectsMaximum ==
    (pc = "moved" /\ legal_moves # << >>) =>
        \A dist \in {calculate_distance_map} :
           \A sb \in {score_move(best[1], best[2], dist, piece_offsets)} :
              /\ best \in Range(legal_moves)
              /\ \A m \in Range(legal_moves) :
                    Ahead(best, sb, m, score_move(m[1], m[2], dist, piece_offsets))

\* Two anchors that both claim a cell share the maximum score.
C7_Witness ==
    /\ pc = "moved" /\ Len(legal_moves) >= 2
    /\ \A dist \in {calculate_distance_map} :
          \A sb \in {score_move(best[1], best[2], dist, piece_offsets)} :
             /\ sb > MinScore
             /\ \E m \in Range(legal_moves) :
                   m # best /\ score_move(m[1], m[2], dist, piece_offsets) = sb

OffsetCells(offs) == {<<offs[i].dx, offs[i].dy>> : i \in 1..Len(offs)}

\* C8: for a piece with a Filled cell trim_piece returns a non-empty offset
\* list whose dx span 0..(max_col - min_col) and dy span 0..(max_row - min_row)
\* of the Filled cells.
C8_TrimSpansBox ==
    [][(pc = "parsed" /\ FilledCells # {}) =>
          /\ pc' = "trimmed"
          /\ piece_offsets' # << >>
          /\ MinOf({c[1] : c \in OffsetCells(piece_offsets')}) = 0
          /\ MinOf({c[2] : c \in OffsetCells(piece_offsets')}) = 0
          /\ MaxOf({c[1] : c \in OffsetCells(piece_offsets')})
                = MaxOf({rc[2] : rc \in FilledCells}) - MinOf({rc[2] : rc \in FilledCells})
          /\ MaxOf({c[2] : c \in OffsetCells(piece_offsets')})
                = MaxOf({rc[1] : rc \in FilledCells}) - MinOf({rc[1] : rc \in FilledCells})
      ]_vars

\* A trimmed piece that lost a border column and a border row.
C8_Witness ==
    /\ pc = "trimmed" /\ Len(piece_offsets) >= 2
    /\ trim_off_x > 0 /\ trim_off_y > 0
    /\ piece_width >= 2 /\ piece_height >= 2

\* C9: the correction trim_piece returns is (min_col, min_row) of the Filled
\* cells, and its offsets shifted by the correction are exactly the Filled
\* cells, one offset for each.
C9_TrimRoundTrip ==
    [][(pc = "parsed" /\ FilledCells # {}) =>
          /\ trim_off_x' = MinOf({rc[2] : rc \in FilledCells})
          /\ trim_off_y' = MinOf({rc[1] : rc \in FilledCells})
          /\ {<<c[2] + trim_off_y', c[1] + trim_off_x'>> : c \in OffsetCells(piece_offsets')}
                = FilledCells
          /\ Len(piece_offsets') = Cardinality(FilledCells)
      ]_vars

\* A trimmed piece whose Filled cells were not all in one row or column start.
C9_Witness ==
    /\ pc = "trimmed" /\ Len(piece_offsets) >= 3
    /\ trim_off_x > 0 /\ trim_off_y > 0
    /\ \E i, j \in 1..Len(piece_offsets) :
          piece_offsets[i].dx # piece_offsets[j].dx /\ piece_offsets[i].dy # piece_offsets[j].dy

\* C10: for a piece with no Filled cell trim_piece returns no offset and the
\* correction (0, 0) without panicking, and make_move then prints "0 0".
C10_EmptyPiecePasses ==
    FilledCells = {} =>
        /\ pc # "panicked"
        /\ pc \in {"trimmed", "moved", "called"} =>
              piece_offsets = << >> /\ trim_off_x = 0 /\ trim_off_y = 0
        /\ pc = "moved" => stdout = <<PassLine>>

\* C11: when the normalised piece is wider or taller than the board, both
\* enumerators return no anchor and make_move takes the no-move branch and
\* prints "0 0".
C11_TooLargePasses ==
    (piece_offsets # << >> /\ (piece_width > board_width \/ piece_height > board_height)) =>
        /\ (pc = "called" /\ ret.fn = "enumerate") =>
              ret.bounded = << >> /\ ret.exhaustive = << >>
        /\ pc = "moved" => legal_moves = << >> /\ stdout = << <<0, 0>> >>

\* A piece that is taller than the board but not wider, on a board where the
\* mover owns a cell.
C11_Witness ==
    /\ pc = "moved" /\ piece_offsets # << >>
    /\ piece_height > board_height /\ piece_width <= board_width
    /\ count_my_territory > 0
    /\ stdout = << <<0, 0>> >>

\* The offsets of the piece that land on an empty cell when anchored at (x, y).
Claimed(x, y, offs) ==
    {i \in 1..Len(offs) : board[y + offs[i].dy][x + offs[i].dx] = "Empty"}

\* C15: score_move returns i32::MIN / 4 for a placement that claims no empty
\* cell and more than that for every legal placement that claims one, and
\* make_move selects an anchor that claims a cell whenever a legal anchor
\* claims one.
C15_ZeroGainIsLowest ==
    /\ (pc = "called" /\ ret.fn = "score_move") =>
          \A r \in ret.calls :
             /\ Claimed(r.x, r.y, piece_offsets) = {} => r.score = MinScore
             /\ (Claimed(r.x, r.y, piece_offsets) # {}
                   /\ LegalPlacement(r.x, r.y, piece_offsets)) => r.score > MinScore
    /\ (pc = "moved" /\ legal_moves # << >>
          /\ \E a \in LegalAnchors : Claimed(a[1], a[2], piece_offsets) # {}) =>
          Claimed(best[1], best[2], piece_offsets) # {}

\* One call scored a legal placement that lies on the mover's own cell only,
\* another a placement of the same piece on an empty cell.
C15_Witness ==
    /\ pc = "called" /\ ret.fn = "score_move"
    /\ \E r \in ret.calls :
          /\ Claimed(r.x, r.y, piece_offsets) = {}
          /\ LegalPlacement(r.x, r.y, piece_offsets)
          /\ r.score = MinScore
    /\ \E r \in ret.calls :
          /\ Claimed(r.x, r.y, piece_offsets) # {}
          /\ r.score > MinScore

\* The sum of dist over the claimed cells of offs[i..] where dist is positive.
RECURSIVE PositiveHeat(_, _, _, _, _)
PositiveHeat(x, y, dist, offs, i) ==
    IF i > Len(offs) THEN 0
    ELSE (IF i \in Claimed(x, y, offs) /\ dist[y + offs[i].dy][x + offs[i].dx] > 0
          THEN dist[y + offs[i].dy][x + offs[i].dx] ELSE 0)
         + PositiveHeat(x, y, dist, offs, i + 1)

\* C20: heat_sum is the sum of the strictly positive distances of the claimed
\* cells: a claimed cell whose distance is -1 or 0 adds nothing, the total is
\* never negative and the score stays inside i32.
C20_HeatSkipsUnreachable ==
    (pc = "called" /\ ret.fn = "score_move") =>
        \A r \in ret.calls :
           /\ r.feat[3] = PositiveHeat(r.x, r.y, r.dist, piece_offsets, 1)
           /\ r.feat[3] >= 0
           /\ (\A i \in Claimed(r.x, r.y, piece_offsets) :
                  r.dist[r.y + piece_offsets[i].dy][r.x + piece_offsets[i].dx] <= 0)
                 => r.feat[3] = 0
           /\ r.score >= -I32Max - 1 /\ r.score <= I32Max

\* The same placement claims a cell under a map that holds -1 there, under a
\* map that holds 0 there and under a map that holds a positive distance.
C20_Witness ==
    /\ pc = "called" /\ ret.fn = "score_move"
    /\ \E a \in OnBoardAnchors(piece_offsets) :
        \E i \in Claimed(a[1], a[2], piece_offsets) :
           \A v \in {-1, 0, 1} :
              \E r \in ret.calls :
                 /\ r.x = a[1] /\ r.y = a[2]
                 /\ r.dist[a[2] + piece_offsets[i].dy][a[1] + piece_offsets[i].dx] = v
                 /\ r.feat[1] >= 1
                 /\ r.feat[3] = (IF v > 0 THEN v ELSE 0)

OpponentCells == {c \in BoardAnchors : board[c[2]][c[1]] = OpCell}

Adjacent(c, d) == Abs(c[1] - d[1]) + Abs(c[2] - d[2]) = 1

\* S and the cells of the board one step from S.
Grow(S) == S \cup UNION {Neighbours(d[1], d[2]) : d \in S}

\* seq extended n times by the cells one step from its last set.
RECURSIVE Reach(_, _)
Reach(seq, n) ==
    IF n = 0 THEN seq ELSE Reach(Append(seq, Grow(seq[Len(seq)])), n - 1)

\* Within[k + 1]: the cells that a 4-connected path of at most k steps joins
\* to an opponent cell.
Within == Reach(<<OpponentCells>>, board_width + board_height)

\* The length of the shortest 4-connected path from c to an opponent cell.
ShortestPath(c, within) ==
    CHOOSE k \in 0..(Len(within) - 1) :
        c \in within[k + 1] /\ (k = 0 \/ c \notin within[k])

\* C12: calculate_distance_map gives 0 to every opponent cell and, to every
\* other cell it reaches, the length of the shortest 4-connected path to an
\* opponent cell.
C12_MapIsShortestPath ==
    (pc = "called" /\ ret.fn = "calculate_distance_map") =>
        \A within \in {Within} :
           \A c \in BoardAnchors :
              /\ c \in OpponentCells => ret.val[c[2]][c[1]] = 0
              /\ (c \notin OpponentCells /\ ret.val[c[2]][c[1]] # -1) =>
                    /\ c \in within[Len(within)]
                    /\ ret.val[c[2]][c[1]] = ShortestPath(c, within)

\* Player Two moves; two opponent cells, and a cell two steps from the
\* nearer one.
C12_Witness ==
    /\ pc = "called" /\ ret.fn = "calculate_distance_map" /\ player = "Two"
    /\ Cardinality(OpponentCells) = 2
    /\ \E c \in BoardAnchors : ret.val[c[2]][c[1]] = 2

\* C13: every opponent cell has distance 0, and every cell of distance k > 0
\* has a neighbour of distance k - 1 and no neighbour of a distance below
\* k - 1 other than the sentinel.
C13_MapIsPathConsistent ==
    (pc = "called" /\ ret.fn = "calculate_distance_map") =>
        \A c \in BoardAnchors :
           /\ c \in OpponentCells => ret.val[c[2]][c[1]] = 0
           /\ ret.val[c[2]][c[1]] > 0 =>
                 /\ \E n \in Neighbours(c[1], c[2]) :
                       ret.val[n[2]][n[1]] = ret.val[c[2]][c[1]] - 1
                 /\ \A n \in Neighbours(c[1], c[2]) :
                       \/ ret.val[n[2]][n[1]] = -1
                       \/ ret.val[n[2]][n[1]] >= ret.val[c[2]][c[1]] - 1

\* A cell of distance 2 between a neighbour of distance 1 and one of distance 3,
\* on a board where the mover owns a cell.
C13_Witness ==
    /\ pc = "called" /\ ret.fn = "calculate_distance_map"
    /\ count_my_territory > 0
    /\ \E c \in BoardAnchors :
          /\ ret.val[c[2]][c[1]] = 2
          /\ \E n \in Neighbours(c[1], c[2]) : ret.val[n[2]][n[1]] = 1
          /\ \E n \in Neighbours(c[1], c[2]) : ret.val[n[2]][n[1]] = 3

\* S and the empty cells one step from S, n times over.
RECURSIVE Spread(_, _)
Spread(S, n) ==
    IF n = 0 THEN S
    ELSE Spread(S \cup {c \in BoardAnchors :
                            board[c[2]][c[1]] = "Empty" /\ \E d \in S : Adjacent(c, d)},
                n - 1)

\* c is empty and no path over empty cells leads from it to an opponent cell.
WalledOff(c) ==
    /\ board[c[2]][c[1]] = "Empty"
    /\ \A e \in Spread({c}, board_width * board_height) :
          \A n \in Neighbours(e[1], e[2]) : board[n[2]][n[1]] # OpCell

\* C14: an empty cell that claimed territory walls off from every opponent
\* cell keeps the sentinel -1.
C14_WalledOffKeepsSentinel ==
    (pc = "called" /\ ret.fn = "calculate_distance_map") =>
        \A c \in BoardAnchors : WalledOff(c) => ret.val[c[2]][c[1]] = -1

\* C16: of two placements on one board with the same liberties, adjacency
\* and heat totals and the same connectivity bonus, the one that claims more
\* empty cells has the strictly higher score, in every phase.
C16_MoreCellsScoreHigher ==
    (pc = "called" /\ ret.fn = "combine") =>
        /\ ret.a[1] > ret.b[1] => ret.score_a > ret.score_b
        /\ ret.a[1] < ret.b[1] => ret.score_a < ret.score_b

\* Late phase, the mover behind, both placements claim a cell next to the
\* opponent.
C16_Witness ==
    /\ pc = "called" /\ ret.fn = "combine"
    /\ (count_my_territory + count_opponent_territory) * 100
          >= 70 * board_width * board_height
    /\ 0 < count_my_territory /\ count_my_territory < count_opponent_territory
    /\ ret.a[1] = 2 /\ ret.b[1] = 1 /\ ret.a[4] > 0 /\ ret.a[3] > 0
    /\ ret.score_a > ret.score_b /\ ret.score_b > MinScore

\* The weights score_move uses on a board with no owned cell, on one half
\* owned and on one fully owned.
EarlyWeights == PhaseWeights(0, 1)
MidWeights == PhaseWeights(1, 2)
LateWeights == PhaseWeights(1, 1)

\* C19: with phase = (mover cells + opponent cells) / (board cells), the
\* weights are the early tuple exactly when phase < 0.35, the mid tuple exactly
\* when 0.35 <= phase < 0.70 and the late tuple exactly when phase >= 0.70;
\* from early to late the liberties weight falls, the pressure weight rises,
\* the heat weight is negative and falls, and the territory weight is the
\* largest in magnitude in each phase.
C19_PhaseBands ==
    (pc = "called" /\ ret.fn = "weights") =>
        /\ ret.val =
              (IF (count_my_territory + count_opponent_territory) * 100
                    < 35 * board_width * board_height THEN EarlyWeights
               ELSE IF (count_my_territory + count_opponent_territory) * 100
                         < 70 * board_width * board_height THEN MidWeights
               ELSE LateWeights)
        /\ EarlyWeights # MidWeights /\ MidWeights # LateWeights
        /\ EarlyWeights # LateWeights
        /\ EarlyWeights[2] > MidWeights[2] /\ MidWeights[2] > LateWeights[2]
        /\ EarlyWeights[3] < MidWeights[3] /\ MidWeights[3] < LateWeights[3]
        /\ 0 > EarlyWeights[4] /\ EarlyWeights[4] > MidWeights[4]
        /\ MidWeights[4] > LateWeights[4]
        /\ \A w \in {EarlyWeights, MidWeights, LateWeights} :
              \A i \in 2..4 : Abs(w[1]) > Abs(w[i])

\* A board of twenty cells, seven of them owned: the ratio is 0.35 itself.
C19_Witness ==
    /\ pc = "called" /\ ret.fn = "weights"
    /\ board_width * board_height = 20
    /\ count_my_territory + count_opponent_territory = 7
    /\ count_my_territory > 0 /\ count_opponent_territory > 0
    /\ ret.val = MidWeights

\* Player One to move with Player1 at (0, 0) and Player2 at (4, 4) on the
\* 5 by 5 board, the one-cell piece normalised.
ScenarioTurn ==
    /\ player = "One" /\ board_width = 5 /\ board_height = 5
    /\ board[0][0] = "Player1" /\ board[4][4] = "Player2"
    /\ count_my_territory = 1 /\ count_opponent_territory = 1
    /\ piece_offsets = <<[dx |-> 0, dy |-> 0]>>

\* C17 as stated: in the scenario the legal moves are exactly (1, 0) and
\* (0, 1) and the move printed is (1, 0).
C17_ScenarioNeighbours ==
    ScenarioTurn =>
        /\ (pc = "called" /\ ret.fn = "enumerate") =>
              Range(ret.bounded) = {<<1, 0>>, <<0, 1>>}
        /\ pc = "moved" =>
              /\ Range(legal_moves) = {<<1, 0>>, <<0, 1>>}
              /\ stdout = << <<1, 0>> >>

\* C17 amended: in the scenario the only legal move is (0, 0), the mover's
\* own cell, and the move printed is (0, 0).
C17_ScenarioOwnCell ==
    ScenarioTurn =>
        /\ (pc = "called" /\ ret.fn = "enumerate") =>
              ret.bounded = << <<0, 0>> >> /\ ret.exhaustive = << <<0, 0>> >>
        /\ pc = "moved" =>
              /\ legal_moves = << <<0, 0>> >>
              /\ best = <<0, 0>>
              /\ stdout = << <<0, 0>> >>

C17_Witness == ScenarioTurn /\ pc = "moved" /\ legal_moves # << >>

\* C18: on a board with no empty cell, a piece with no legal anchor, and so
\* every piece of two or more cells, makes make_move take the no-move branch
\* and print "0 0".
C18_FullBoardPasses ==
    (pc = "moved" /\ \A c \in BoardAnchors : board[c[2]][c[1]] # "Empty") =>
        /\ LegalAnchors = {} => legal_moves = << >> /\ stdout = << <<0, 0>> >>
        /\ Len(piece_offsets) >= 2 => legal_moves = << >> /\ stdout = << <<0, 0>> >>

\* A full board that holds cells of both players and a two-cell piece that
\* fits on it.
C18_Witness ==
    /\ pc = "moved" /\ \A c \in BoardAnchors : board[c[2]][c[1]] # "Empty"
    /\ count_my_territory > 0 /\ count_opponent_territory > 0
    /\ Len(piece_offsets) = 2
    /\ piece_width <= board_width /\ piece_height <= board_height
    /\ legal_moves = << >> /\ stdout = << <<0, 0>> >>

\* a is ahead of b: the higher score, then the lower y, then the lower x.
Preferred(a, b) ==
    \/ a.score > b.score
    \/ a.score = b.score /\ a.y < b.y
    \/ a.score = b.score /\ a.y = b.y /\ a.x < b.x

\* C23: cmp is a strict total order on (score, y, x): a candidate is Greater
\* exactly when its score is higher, or at equal score its y is lower, or at
\* equal score and y its x is lower; it is Equal only to a candidate of the
\* same score, x and y; the relation is antisymmetric and transitive.
C23_CmpIsTotalOrder ==
    (pc = "called" /\ ret.fn = "cmp") =>
        /\ ret.ab = "Greater" <=> Preferred(ret.a, ret.b)
        /\ ret.ab = "Less" <=> Preferred(ret.b, ret.a)
        /\ ret.ab = "Equal" <=> ret.a = ret.b
        /\ ret.ab = "Greater" <=> ret.ba = "Less"
        /\ ret.ab = "Equal" <=> ret.ba = "Equal"
        /\ (ret.ab = "Greater" /\ ret.bc = "Greater") => ret.ac = "Greater"
        /\ (ret.ab # "Less" /\ ret.bc # "Less") => ret.ac # "Less"

\* Three candidates of one score: a and b in one row, a to the left of b, and
\* c in a row below.
C23_Witness ==
    /\ pc = "called" /\ ret.fn = "cmp"
    /\ ret.a.score = ret.b.score /\ ret.b.score = ret.c.score
    /\ ret.a.y = ret.b.y /\ ret.a.x < ret.b.x /\ ret.b.y < ret.c.y
    /\ ret.ab = "Greater" /\ ret.bc = "Greater" /\ ret.ac = "Greater"

\* C30: a == b holds exactly when a.cmp(b) is Ordering::Equal.
C30_EqAgreesWithCmp ==
    (pc = "called" /\ ret.fn = "cmp") => (ret.eq_ab <=> ret.ab = "Equal")

\* The cells the mover owns.
MoverCells == {c \in BoardAnchors : board[c[2]][c[1]] = MyCell}

\* The least Manhattan distance from a to one of the cells in mine.
Nearest(a, mine) == MinOf({Abs(a[1] - c[1]) + Abs(a[2] - c[2]) : c \in mine})

\* C26: the connectivity bonus is 10 * (10 - min(d, 10)) for the least
\* Manhattan distance d from the anchor to a cell of the mover; it lies in
\* 0..100, does not increase with d, and is 0 when d >= 10 or when the mover
\* owns no cell.
C26_ConnectivityBonus ==
    (pc = "called" /\ ret.fn = "best_conn") =>
        \A mine \in {MoverCells} :
           /\ mine = {} => \A a \in BoardAnchors : ret.val[a].bonus = 0
           /\ mine # {} =>
                 \A a \in BoardAnchors :
                    /\ ret.val[a].best_conn = Nearest(a, mine)
                    /\ ret.val[a].bonus = 10 * (10 - Min2(ret.val[a].best_conn, 10))
                    /\ ret.val[a].bonus >= 0 /\ ret.val[a].bonus <= 100
                    /\ ret.val[a].best_conn >= 10 => ret.val[a].bonus = 0
                    /\ \A b \in BoardAnchors :
                          ret.val[a].best_conn <= ret.val[b].best_conn
                             => ret.val[a].bonus >= ret.val[b].bonus

\* Player Two moves; one anchor lies on the mover's cell, one nine steps from
\* it and one, in the other row, eleven steps from it.
C26_Witness ==
    /\ pc = "called" /\ ret.fn = "best_conn" /\ player = "Two"
    /\ count_opponent_territory > 0
    /\ \E a \in BoardAnchors : ret.val[a] = [best_conn |-> 0, bonus |-> 100]
    /\ \E a \in BoardAnchors : ret.val[a] = [best_conn |-> 9, bonus |-> 10]
    /\ \E a \in BoardAnchors : ret.val[a] = [best_conn |-> 11, bonus |-> 0]

\* C29: a second call of trim_piece, for a piece with a Filled cell, returns
\* the offsets of the first call with the correction (0, 0) and leaves piece,
\* piece_width and piece_height as they are.
C29_TrimIsIdempotent ==
    [][(pc = "trimmed" /\ piece_offsets # << >>) =>
          /\ pc' = "retrimmed"
          /\ piece_offsets' = piece_offsets
          /\ trim_off_x' = 0 /\ trim_off_y' = 0
          /\ piece' = piece
          /\ piece_width' = piece_width /\ piece_height' = piece_height
      ]_vars

\* Trimmed twice: a piece of two rows and two columns with an Empty cell in
\* its box.
C29_Witness ==
    /\ pc = "retrimmed" /\ Len(piece_offsets) >= 2
    /\ piece_width >= 2 /\ piece_height >= 2
    /\ Len(piece_offsets) < piece_width * piece_height
    /\ trim_off_x = 0 /\ trim_off_y = 0

\* C28: every anchor make_move hands to score_move puts each offset of the
\* piece on a cell of the board, so no index of score_move is out of range or
\* wraps from a negative value, and make_move does not panic.
C28_ScoredAnchorsOnBoard ==
    legal_moves # << >> =>
        /\ pc # "panicked"
        /\ \A m \in Range(legal_moves) : \A i \in 1..Len(piece_offsets) :
              /\ 0 <= m[1] + piece_offsets[i].dx
              /\ m[1] + piece_offsets[i].dx < board_width
              /\ 0 <= m[2] + piece_offsets[i].dy
              /\ m[2] + piece_offsets[i].dy < board_height

\* A piece behind an Empty column, so that the scan window runs past the
\* board's edge, scored at the last anchor that keeps it on the board.
C28_Witness ==
    /\ pc = "moved" /\ trim_off_x > 0
    /\ legal_moves # << >>
    /\ \E m \in Range(legal_moves) : m[1] + piece_width = board_width

\* C27: the search of calculate_distance_map terminates: no cell is pushed on
\* the queue more than once, a distance is written only over the sentinel -1
\* and so at most once, and the loop ends, with the queue empty, after at most
\* board_width * board_height passes.
C27_BfsTerminates ==
    /\ [](pc = "searching" =>
            /\ \A c \in BoardAnchors : frame.pushes[c] <= 1
            /\ frame.pops <= board_width * board_height)
    /\ [][(pc = "searching" /\ pc' = "searching") =>
            \A c \in BoardAnchors :
               frame.st.dist[c[2]][c[1]] # -1 =>
                  frame'.st.dist[c[2]][c[1]] = frame.st.dist[c[2]][c[1]]]_vars
    /\ [](ret.fn = "calculate_distance_map" =>
            /\ frame.st.queue = << >>
            /\ frame.pops <= board_width * board_height
            /\ ret.val = frame.st.dist)
    /\ <>(pc = "called" /\ ret.fn = "calculate_distance_map")

\* The search returned after a pass for every cell of a board of two rows, a
\* cell of which was reached from two sides.
C27_Witness ==
    /\ pc = "called" /\ ret.fn = "calculate_distance_map"
    /\ board_height = 2 /\ board_width >= 2
    /\ frame.pops = board_width * board_height
    /\ \E c \in BoardAnchors :
          /\ ret.val[c[2]][c[1]] >= 2
          /\ Cardinality({n \in Neighbours(c[1], c[2]) :
                             ret.val[n[2]][n[1]] = ret.val[c[2]][c[1]] - 1}) = 2

\* C24: the pair main.rs's make_move prints consists of two non-negative
\* integers.
C24_BinaryPrintsNonNegative ==
    (pc = "moved" /\ stdout # << >>) =>
        stdout[Len(stdout)][1] >= 0 /\ stdout[Len(stdout)][2] >= 0

\* C25: main.rs's is_legal_move and the library's is_legal_move accept the
\* same anchors for the same offsets, board and mover.
C25_PredicatesAgree ==
    (pc = "called" /\ ret.fn = "is_legal_move_both") =>
        \A a \in ProbeAnchors : ret.bin[a] = ret.lib[a]

\* The lines printed by the passes of main that began on a line of turn k.
RECURSIVE PrintedFrom(_, _)
PrintedFrom(passes, k) ==
    IF passes = << >> THEN << >>
    ELSE (IF Head(passes).first = k THEN Head(passes).out ELSE << >>)
            \o PrintedFrom(Tail(passes), k)

\* C22: once main has read all its input, every turn whose framing is
\* malformed has got exactly one line, "0 0", and no pass that began on one
\* of its lines has invoked make_move.
C22_MalformedTurnPasses ==
    (pc = "exited" /\ frame.fn = "main") =>
        \A k \in DOMAIN frame.turns :
            frame.turns[k].framing # "ok" =>
                /\ PrintedFrom(frame.passes, k) = <<PassLine>>
                /\ \A i \in DOMAIN frame.passes :
                      frame.passes[i].first = k => ~frame.passes[i].called

\* C21: what a pass of main prints is what main prints when it is started on
\* the same exec line followed only by the turn that the pass read last, so
\* that the line for a turn does not depend on the turns before it.
C21_LineDependsOnOwnTurn ==
    (frame.fn = "main" /\ frame.passes # << >>) =>
        \E e \in {frame.passes[Len(frame.passes)]} :
            (e.out # << >>) =>
                e.out = MainOutput(GameState_new,
                                   <<frame.exec>> \o TurnLines(e.last, frame.turns[e.last]))

============================================================================
